---- MODULE Spec2Model ----
(***************************************************************************)
(* NanoRedis: the storage engine (entity/db.rs), the command handlers      *)
(* that drive it (cmd/*.rs) and the connection lifecycle                   *)
(* (connect/server_start.rs).                                              *)
(*                                                                         *)
(* Byte strings (Bytes, String) are sequences of one-character strings.    *)
(* Option<T> is a set with at most one element: None == {}, Some(x) == {x}.*)
(* Instants are natural numbers; `now` is the clock.                       *)
(***************************************************************************)
EXTENDS Integers, Sequences, FiniteSets, TLC

\* ------------------------------------------------------------------------
\* Bounds of the model
\* ------------------------------------------------------------------------
\* the clock stops advancing here
MaxTime == 1
\* longest list kept under one key
MaxListLen == 3
\* longest list while the string commands are exercised
MaxEngineList == 1
\* stored numbers stay within -MaxNum .. MaxNum
MaxNum == 1
\* width of the machine integer standing in for i64 (two's complement)
I64Bits == 8
\* connection tasks that may ever be spawned
MaxConns == 3
\* permits of the admission semaphore (stands for MAX_CONNECTIONS)
ConnLimit == 2
\* most elements of an Array frame put through the codec
MaxArrayLen == 2
\* most messages a peer sends on one connection
MaxMessages == 2
\* most bytes one read_buf brings
MaxChunk == 3
\* most requests a peer has in flight on one connection
MaxRequests == 2
\* width of the machine integer standing in for usize and u64
USizeBits == 6

Keys == <<"k1", "k2">>
KeySet == {Keys[i] : i \in 1..Len(Keys)}
Conns == 1..MaxConns
\* the connections already accepted when the engine is exercised
EngineConns == {1, 2}
TTLs == {1, 2}
Deltas == {1, -2}
SetValues == {<<"+", "1">>, <<"x">>}
PushElems == {<<"a">>, <<"b">>}
PushValues == {<<>>} \cup {<<x>> : x \in PushElems}
                 \cup {<<x, y>> : x \in PushElems, y \in PushElems}

None == {}
Some(x) == {x}
Unwrap(o) == CHOOSE x \in o : TRUE

\* ------------------------------------------------------------------------
\* utils/serialization.rs and the integer formatting used by Db::incrby
\* ------------------------------------------------------------------------
\* Listener::accept: `if backoff > 64`
ACCEPT_BACKOFF_LIMIT == 64

I64Max == 2 ^ (I64Bits - 1) - 1
I64Min == -(2 ^ (I64Bits - 1))

DigitChars == <<"0", "1", "2", "3", "4", "5", "6", "7", "8", "9">>
IsDigit(ch) == \E i \in 1..10 : DigitChars[i] = ch
DigitVal(ch) == (CHOOSE i \in 1..10 : DigitChars[i] = ch) - 1

RECURSIVE DigitsVal(_)
DigitsVal(s) ==
  IF s = <<>> THEN 0
  ELSE 10 * DigitsVal(SubSeq(s, 1, Len(s) - 1)) + DigitVal(s[Len(s)])

\* str::parse::<i64>: an optional sign, then one or more digits, in range
bytes_to_i64(bytes) ==
  LET signed == bytes # <<>> /\ bytes[1] \in {"+", "-"}
      digits == IF signed THEN Tail(bytes) ELSE bytes
      wellformed == digits # <<>> /\ \A i \in 1..Len(digits) : IsDigit(digits[i])
      mag == DigitsVal(digits)
      val == IF signed /\ bytes[1] = "-" THEN -mag ELSE mag
  IN IF wellformed /\ val >= I64Min /\ val <= I64Max
       THEN [ok |-> TRUE, val |-> val]
       ELSE [ok |-> FALSE, val |-> 0]

RECURSIVE NatToString(_)
NatToString(n) ==
  IF n < 10 THEN <<DigitChars[n + 1]>>
  ELSE NatToString(n \div 10) \o <<DigitChars[(n % 10) + 1]>>

\* i64::to_string
i64_to_string(n) == IF n < 0 THEN <<"-">> \o NatToString(-n) ELSE NatToString(n)

\* `int + value` on i64: in range the sum; out of range the build decides
\* (overflow checks on: panic; off: two's complement wrap-around)
WrapI64(x) == ((x - I64Min) % (2 ^ I64Bits)) + I64Min
AddI64(a, b) ==
  IF a + b >= I64Min /\ a + b <= I64Max
    THEN {[panic |-> FALSE, val |-> a + b]}
    ELSE {[panic |-> TRUE, val |-> 0], [panic |-> FALSE, val |-> WrapI64(a + b)]}

\* ------------------------------------------------------------------------
\* entity/db.rs: State, Entry, DbData
\* ------------------------------------------------------------------------
String(bytes) == [type |-> "String", bytes |-> bytes]
List(l) == [type |-> "List", list |-> l]
Entry(data, expires_at) == [data |-> data, expires_at |-> expires_at]

\* HashMap::insert / HashMap::remove on a map kept as a function
Insert(map, key, e) == [x \in (DOMAIN map) \cup {key} |-> IF x = key THEN e ELSE map[x]]
Remove(map, key) == [x \in (DOMAIN map) \ {key} |-> map[x]]

\* Ord of (Instant, String): by instant, then by key
KeyRank(key) == CHOOSE i \in 1..Len(Keys) : Keys[i] = key
PairLeq(p, q) == p[1] < q[1] \/ (p[1] = q[1] /\ KeyRank(p[2]) <= KeyRank(q[2]))
\* BTreeSet::iter().next(): the least pair
FirstPair(exps) == CHOOSE p \in exps : \A q \in exps : PairLeq(p, q)

next_expiration(st) ==
  IF st.expirations = {} THEN None ELSE Some(FirstPair(st.expirations)[1])

\* Db::get after the lock is taken; panic: Option::unwrap on a missing key
Db_get(st, key) ==
  IF key \notin DOMAIN st.entries
    THEN [panic |-> TRUE, ret |-> None]
    ELSE LET data == st.entries[key].data
         IN IF data.type = "String"
              THEN [panic |-> FALSE, ret |-> Some(data.bytes)]
              ELSE [panic |-> FALSE, ret |-> None]

\* Db::set that keeps an entry already stored under the key
Db_set_first_write_wins(st, key, value, expire, t) ==
  LET expires_at == IF expire = None THEN None ELSE Some(t + Unwrap(expire))
      fresh == key \notin DOMAIN st.entries
  IN [state |-> IF fresh
                  THEN [st EXCEPT !.entries = Insert(@, key, Entry(String(value), expires_at)),
                                  !.expirations = @ \cup {<<w, key>> : w \in expires_at}]
                  ELSE st,
      notify |-> FALSE]

\* Db::set that leaves the previous (instant, key) pair in expirations
Db_set_keeps_old_pair(st, key, value, expire, t) ==
  LET expires_at == IF expire = None THEN None ELSE Some(t + Unwrap(expire))
      notify == /\ expire # None
                /\ \/ next_expiration(st) = None
                   \/ Unwrap(next_expiration(st)) > Unwrap(expires_at)
  IN [state |-> [st EXCEPT !.entries = Insert(@, key, Entry(String(value), expires_at)),
                           !.expirations = @ \cup {<<w, key>> : w \in expires_at}],
      notify |-> notify]

\* Db::set after the lock is taken, called at instant t
Db_set(st, key, value, expire, t) ==
  LET expires_at == IF expire = None THEN None ELSE Some(t + Unwrap(expire))
      notify == /\ expire # None
                /\ \/ next_expiration(st) = None
                   \/ Unwrap(next_expiration(st)) > Unwrap(expires_at)
      prev == IF key \in DOMAIN st.entries THEN Some(st.entries[key]) ELSE None
      entries1 == Insert(st.entries, key, Entry(String(value), expires_at))
      exp1 == IF prev # None /\ Unwrap(prev).expires_at # None
                THEN st.expirations \ {<<Unwrap(Unwrap(prev).expires_at), key>>}
                ELSE st.expirations
      exp2 == IF expires_at # None
                THEN exp1 \cup {<<Unwrap(expires_at), key>>}
                ELSE exp1
  IN [state |-> [st EXCEPT !.entries = entries1, !.expirations = exp2],
      notify |-> notify]

\* Db::incrby that stores the "error" marker of its second match over a
\* value that is not a String
Db_incrby_stores_marker(st, key, value) ==
  IF key \in DOMAIN st.entries /\ st.entries[key].data.type # "String"
    THEN {[panic |-> FALSE,
           state |-> [st EXCEPT !.entries[key].data = String(<<"e", "r", "r", "o", "r">>)],
           ret |-> Some(<<"O", "K">>)]}
    ELSE {[panic |-> FALSE, state |-> st, ret |-> Some(<<"e", "r", "r", "o", "r">>)]}

\* Db::incrby after the lock is taken: the set of outcomes (one per outcome
\* of the additions); a panicking outcome carries the state at the panic
Db_incrby(st, key, value) ==
  LET present == key \in DOMAIN st.entries
      isString == present /\ st.entries[key].data.type = "String"
      parsed == IF isString THEN bytes_to_i64(st.entries[key].data.bytes)
                ELSE [ok |-> FALSE, val |-> 0]
  IN IF ~present
       THEN {[panic |-> FALSE, state |-> st, ret |-> Some(<<"e", "r", "r", "o", "r">>)]}
     ELSE IF ~isString
       THEN {[panic |-> FALSE, state |-> st, ret |-> Some(<<"O", "K">>)]}
     ELSE IF ~parsed.ok
       THEN {[panic |-> TRUE, state |-> st, ret |-> None]}
     ELSE UNION {
       IF a.panic
         THEN {[panic |-> TRUE, state |-> st, ret |-> None]}
         ELSE LET st1 == [st EXCEPT !.entries[key].data = String(i64_to_string(a.val))]
                  \* second match: parses the stored text again and adds
                  \* once more, into a clone that is dropped
                  again == bytes_to_i64(st1.entries[key].data.bytes)
              IN {IF ~again.ok \/ b.panic
                    THEN [panic |-> TRUE, state |-> st1, ret |-> None]
                    ELSE [panic |-> FALSE, state |-> st1, ret |-> Some(<<"O", "K">>)]
                  : b \in AddI64(again.val, value)}
       : a \in AddI64(parsed.val, value)}

Reverse(s) == [i \in 1..Len(s) |-> s[Len(s) + 1 - i]]

RECURSIVE PushEach(_, _, _)
\* for v in value { l.push_back(v) } / { l.push_front(v) }
PushEach(l, value, right) ==
  IF value = <<>> THEN l
  ELSE PushEach(IF right THEN Append(l, Head(value)) ELSE <<Head(value)>> \o l,
                Tail(value), right)

\* Db::push that seeds a new list in input order for either end
Db_push_no_reverse(st, key, value, right) ==
  IF key \notin DOMAIN st.entries
    THEN [state |-> [st EXCEPT !.entries = Insert(@, key, Entry(List(value), None))],
          notify |-> FALSE]
    ELSE LET dbdata == st.entries[key].data
         IN IF dbdata.type = "List"
              THEN [state |-> [st EXCEPT !.entries[key].data =
                                 List(PushEach(dbdata.list, value, right))],
                    notify |-> FALSE]
              ELSE [state |-> st, notify |-> FALSE]

\* Db::push that replaces a value that is not a list by a new list
Db_push_overwrites_string(st, key, value, right) ==
  IF key \in DOMAIN st.entries /\ st.entries[key].data.type # "List"
    THEN [state |-> [st EXCEPT !.entries[key].data =
                       List(IF right THEN value ELSE Reverse(value))],
          notify |-> FALSE]
    ELSE Db_push_no_reverse(st, key, value, right)

\* Db::push after the lock is taken
Db_push(st, key, value, right) ==
  IF key \notin DOMAIN st.entries
    THEN LET expire == None
             expires_at == None
             notify == FALSE
             linked_list == IF right THEN value ELSE Reverse(value)
             prev == None
             entries1 == Insert(st.entries, key, Entry(List(linked_list), expires_at))
         IN [state |-> [st EXCEPT !.entries = entries1], notify |-> notify]
    ELSE LET dbdata == st.entries[key].data
         IN IF dbdata.type = "List"
              THEN [state |-> [st EXCEPT !.entries[key].data =
                                 List(PushEach(dbdata.list, value, right))],
                    notify |-> FALSE]
              ELSE [state |-> st, notify |-> FALSE]

RECURSIVE PurgeLoop_keeps_entry(_, _)
\* the purge loop without state.entries.remove(key)
PurgeLoop_keeps_entry(st, t) ==
  IF st.expirations = {} THEN [state |-> st, ret |-> None]
  ELSE LET p == FirstPair(st.expirations)
       IN IF p[1] > t
            THEN [state |-> st, ret |-> Some(p[1])]
            ELSE PurgeLoop_keeps_entry([st EXCEPT !.expirations = @ \ {p}], t)

RECURSIVE PurgeLoop(_, _)
\* the while-let loop of Shared::purge_expired_keys
PurgeLoop(st, t) ==
  IF st.expirations = {} THEN [state |-> st, ret |-> None]
  ELSE LET p == FirstPair(st.expirations)
       IN IF p[1] > t
            THEN [state |-> st, ret |-> Some(p[1])]
            ELSE PurgeLoop([st EXCEPT !.entries = Remove(@, p[2]),
                                      !.expirations = @ \ {p}], t)

\* Shared::purge_expired_keys after the lock is taken, run at instant t
purge_expired_keys(st, t) ==
  IF st.shutdown THEN [state |-> st, ret |-> None] ELSE PurgeLoop(st, t)

\* Db::pop after the lock is taken
Db_pop(st, key, right) ==
  IF key \notin DOMAIN st.entries \/ st.entries[key].data.type # "List"
       \/ st.entries[key].data.list = <<>>
    THEN [state |-> st, ret |-> None]
    ELSE LET l == st.entries[key].data.list
         IN [state |-> [st EXCEPT !.entries[key].data =
                          List(IF right THEN SubSeq(l, 1, Len(l) - 1) ELSE Tail(l))],
             ret |-> Some(IF right THEN l[Len(l)] ELSE Head(l))]

\* ------------------------------------------------------------------------
\* entity/frame.rs: reply frames
\* ------------------------------------------------------------------------
Simple(text) == [type |-> "Simple", text |-> text]
Error(text) == [type |-> "Error", text |-> text]
Bulk(bytes) == [type |-> "Bulk", bytes |-> bytes]
Null == [type |-> "Null"]
OK == <<"O", "K">>
\* the unsigned integer of the wire (`:`): Frame::Integer(u64) in frame.rs,
\* Frame::USize in connection.rs and parse.rs
USize(n) == [type |-> "USize", n |-> n]
\* the signed integer connection.rs and parse.rs call Frame::Integer
Integer(v) == [type |-> "Integer", int |-> v]
Array(elems) == [type |-> "Array", elems |-> elems]

CR == "\r"
LF == "\n"
CRLF == <<CR, LF>>
\* stands for a byte that is not valid UTF-8 (0x80)
Byte80 == "^"

\* ------------------------------------------------------------------------
\* connect/connection.rs: write_frame, write_value
\* ------------------------------------------------------------------------
write_decimal(val) == NatToString(val) \o CRLF
write_i64(val) == i64_to_string(val) \o CRLF

\* the bytes put on the stream; panic: unreachable!() on a nested array
write_value(frame) ==
  CASE frame.type = "Simple" -> [panic |-> FALSE, bytes |-> <<"+">> \o frame.text \o CRLF]
    [] frame.type = "Error" -> [panic |-> FALSE, bytes |-> <<"#">> \o frame.text \o CRLF]
    [] frame.type = "USize" -> [panic |-> FALSE, bytes |-> <<":">> \o write_decimal(frame.n)]
    [] frame.type = "Integer" -> [panic |-> FALSE, bytes |-> <<"=">> \o write_i64(frame.int)]
    [] frame.type = "Null" -> [panic |-> FALSE, bytes |-> <<"$", "-", "1", CR, LF>>]
    [] frame.type = "Bulk" ->
         [panic |-> FALSE,
          bytes |-> <<"$">> \o write_decimal(Len(frame.bytes)) \o frame.bytes \o CRLF]
    [] frame.type = "Array" -> [panic |-> TRUE, bytes |-> <<>>]

RECURSIVE WriteEach(_)
\* for entry in &**val { self.write_value(entry).await?; }
WriteEach(val) ==
  IF val = <<>> THEN [panic |-> FALSE, bytes |-> <<>>]
  ELSE LET first == write_value(Head(val))
           rest == WriteEach(Tail(val))
       IN IF first.panic THEN first
          ELSE [panic |-> rest.panic, bytes |-> first.bytes \o rest.bytes]

\* write_frame on a transport that takes every byte: what was written when
\* it returns or panics
write_frame(frame) ==
  IF frame.type = "Array"
    THEN LET entries == WriteEach(frame.elems)
         IN [panic |-> entries.panic,
             bytes |-> <<"*">> \o write_decimal(Len(frame.elems)) \o entries.bytes]
    ELSE write_value(frame)

\* ------------------------------------------------------------------------
\* entity/frame.rs: Frame::check, Frame::parse over a cursor (src, pos);
\* pos counts the bytes consumed, src[pos + 1] is the next byte
\* ------------------------------------------------------------------------
Remaining(src, pos) == Len(src) - pos

\* get_line: the first CRLF at or after the cursor, looked for up to the
\* last byte but one
get_line(src, pos) ==
  LET ends == {i \in pos..(Len(src) - 2) : src[i + 1] = CR /\ src[i + 2] = LF}
  IN IF ends = {} THEN [res |-> "incomplete", pos |-> pos, line |-> <<>>]
     ELSE LET i == CHOOSE e \in ends : \A f \in ends : e <= f
          IN [res |-> "ok", pos |-> i + 2, line |-> SubSeq(src, pos + 1, i)]

RECURSIVE LeadingDigits(_)
LeadingDigits(line) ==
  IF line = <<>> \/ ~IsDigit(Head(line)) THEN <<>>
  ELSE <<Head(line)>> \o LeadingDigits(Tail(line))

\* atoi::<u64>: the number the leading digits spell, None without a digit
atoi_u64(line) ==
  IF LeadingDigits(line) = <<>> THEN None ELSE Some(DigitsVal(LeadingDigits(line)))

get_decimal(src, pos) ==
  LET l == get_line(src, pos)
  IN IF l.res # "ok" THEN [res |-> l.res, pos |-> l.pos, val |-> 0]
     ELSE IF atoi_u64(l.line) = None THEN [res |-> "error", pos |-> l.pos, val |-> 0]
     ELSE [res |-> "ok", pos |-> l.pos, val |-> Unwrap(atoi_u64(l.line))]

USizeMax == 2 ^ USizeBits - 1
\* the build: with overflow checks an overflowing `+` panics, without
\* them it wraps
Builds == {"checked", "wrapping"}

\* len + 2 on usize
AddUsize(a, b, build) ==
  IF a + b <= USizeMax THEN [panic |-> FALSE, val |-> a + b]
  ELSE IF build = "checked" THEN [panic |-> TRUE, val |-> 0]
  ELSE [panic |-> FALSE, val |-> (a + b) % (2 ^ USizeBits)]

\* skip without the look at what remains
skip_unchecked(src, pos, n) == [res |-> "ok", pos |-> pos + n]

skip(src, pos, n) ==
  IF Remaining(src, pos) < n THEN [res |-> "incomplete", pos |-> pos]
  ELSE [res |-> "ok", pos |-> pos + n]

RECURSIVE check(_, _, _)
RECURSIVE CheckEach(_, _, _, _)
\* for _ in 0..len { Frame::check(src)?; }
CheckEach(src, pos, len, build) ==
  IF len = 0 THEN [res |-> "ok", pos |-> pos]
  ELSE LET first == check(src, pos, build)
       IN IF first.res # "ok" THEN first ELSE CheckEach(src, first.pos, len - 1, build)

\* Frame::check: "ok", "incomplete" (Error::Incomplete), "error"
\* (Error::Other) or "panic" (len + 2 overflows in a build with overflow
\* checks), and where the cursor stands
check(src, pos, build) ==
  IF Remaining(src, pos) = 0 THEN [res |-> "incomplete", pos |-> pos]
  ELSE LET tag == src[pos + 1]
           p == pos + 1
       IN CASE tag \in {"+", "-"} ->
                 LET l == get_line(src, p) IN [res |-> l.res, pos |-> l.pos]
            [] tag = ":" ->
                 LET d == get_decimal(src, p) IN [res |-> d.res, pos |-> d.pos]
            [] tag = "$" ->
                 IF Remaining(src, p) = 0 THEN [res |-> "incomplete", pos |-> p]
                 ELSE IF src[p + 1] = "-" THEN skip(src, p, 4)
                 ELSE LET d == get_decimal(src, p)
                          n == AddUsize(d.val, 2, build)
                      IN IF d.res # "ok" THEN [res |-> d.res, pos |-> d.pos]
                         ELSE IF n.panic THEN [res |-> "panic", pos |-> d.pos]
                         ELSE skip(src, d.pos, n.val)
            [] tag = "*" ->
                 LET d == get_decimal(src, p)
                 IN IF d.res # "ok" THEN [res |-> d.res, pos |-> d.pos]
                    ELSE CheckEach(src, d.pos, d.val, build)
            [] OTHER -> [res |-> "error", pos |-> p]

\* String::from_utf8
from_utf8(bytes) ==
  IF \E i \in 1..Len(bytes) : bytes[i] = Byte80 THEN None ELSE Some(bytes)

Failed(res, pos) == [res |-> res, pos |-> pos, frame |-> Null]

RECURSIVE parse(_, _, _)
RECURSIVE ParseEach(_, _, _, _, _)
\* for _ in 0..len { out.push(Frame::parse(src)?); }
ParseEach(src, pos, len, out, build) ==
  IF len = 0 THEN [res |-> "ok", pos |-> pos, frame |-> Array(out)]
  ELSE LET first == parse(src, pos, build)
       IN IF first.res # "ok" THEN first
          ELSE ParseEach(src, first.pos, len - 1, Append(out, first.frame), build)

\* Frame::parse: "ok" with the frame, "incomplete", "error", or "panic"
\* (unimplemented!() on an unknown type byte, len + 2 overflowing in a
\* build with overflow checks, &src.chunk()[..len] past the end)
parse(src, pos, build) ==
  IF Remaining(src, pos) = 0 THEN Failed("incomplete", pos)
  ELSE LET tag == src[pos + 1]
           p == pos + 1
       IN CASE tag \in {"+", "-"} ->
                 LET l == get_line(src, p)
                 IN IF l.res # "ok" THEN Failed(l.res, l.pos)
                    ELSE IF from_utf8(l.line) = None THEN Failed("error", l.pos)
                    ELSE [res |-> "ok", pos |-> l.pos,
                          frame |-> IF tag = "+" THEN Simple(l.line) ELSE Error(l.line)]
            [] tag = ":" ->
                 LET d == get_decimal(src, p)
                 IN IF d.res # "ok" THEN Failed(d.res, d.pos)
                    ELSE [res |-> "ok", pos |-> d.pos, frame |-> USize(d.val)]
            [] tag = "$" ->
                 IF Remaining(src, p) = 0 THEN Failed("incomplete", p)
                 ELSE IF src[p + 1] = "-"
                   THEN LET l == get_line(src, p)
                        IN IF l.res # "ok" THEN Failed(l.res, l.pos)
                           ELSE IF l.line # <<"-", "1">> THEN Failed("error", l.pos)
                           ELSE [res |-> "ok", pos |-> l.pos, frame |-> Null]
                 ELSE LET d == get_decimal(src, p)
                          sum == AddUsize(d.val, 2, build)
                          n == sum.val
                      IN IF d.res # "ok" THEN Failed(d.res, d.pos)
                         ELSE IF sum.panic THEN Failed("panic", d.pos)
                         ELSE IF Remaining(src, d.pos) < n THEN Failed("incomplete", d.pos)
                         ELSE IF Remaining(src, d.pos) < d.val THEN Failed("panic", d.pos)
                         ELSE [res |-> "ok", pos |-> d.pos + n,
                               frame |-> Bulk(SubSeq(src, d.pos + 1, d.pos + d.val))]
            [] tag = "*" ->
                 LET d == get_decimal(src, p)
                 IN IF d.res # "ok" THEN Failed(d.res, d.pos)
                    ELSE ParseEach(src, d.pos, d.val, <<>>, build)
            [] OTHER -> Failed("panic", p)

\* ------------------------------------------------------------------------
\* entity/parse.rs: Parse, a cursor over the elements of an Array frame.
\* A cursor is the sequence of the parts not yet taken; each next_* returns
\* [ok, err, val, parts] with err "EndOfStream" or "Other"
\* ------------------------------------------------------------------------
Taken(val, parts) == [ok |-> TRUE, err |-> "", val |-> val, parts |-> parts]
ParseError(err, parts) == [ok |-> FALSE, err |-> err, val |-> <<>>, parts |-> parts]

\* Parse::new: the parts of an Array, an error for any other frame
Parse_new(frame) ==
  IF frame.type = "Array" THEN Taken(<<>>, frame.elems) ELSE ParseError("Other", <<>>)

\* atoi::<i64>: an optional sign and the leading digits, None without a
\* digit or out of range
atoi_i64(line) ==
  LET signed == line # <<>> /\ line[1] \in {"+", "-"}
      digits == LeadingDigits(IF signed THEN Tail(line) ELSE line)
      mag == DigitsVal(digits)
      val == IF signed /\ line[1] = "-" THEN -mag ELSE mag
  IN IF digits = <<>> \/ val < I64Min \/ val > I64Max THEN None ELSE Some(val)

next_string(parts) ==
  IF parts = <<>> THEN ParseError("EndOfStream", parts)
  ELSE LET frame == Head(parts)
       IN CASE frame.type = "Simple" -> Taken(frame.text, Tail(parts))
            [] frame.type = "Bulk" ->
                 IF from_utf8(frame.bytes) = None THEN ParseError("Other", Tail(parts))
                 ELSE Taken(frame.bytes, Tail(parts))
            [] OTHER -> ParseError("Other", Tail(parts))

next_bytes(parts) ==
  IF parts = <<>> THEN ParseError("EndOfStream", parts)
  ELSE LET frame == Head(parts)
       IN CASE frame.type = "Simple" -> Taken(frame.text, Tail(parts))
            [] frame.type = "Bulk" -> Taken(frame.bytes, Tail(parts))
            [] OTHER -> ParseError("Other", Tail(parts))

next_u64(parts) ==
  IF parts = <<>> THEN ParseError("EndOfStream", parts)
  ELSE LET frame == Head(parts)
           text == IF frame.type = "Simple" THEN frame.text
                   ELSE IF frame.type = "Bulk" THEN frame.bytes ELSE <<>>
       IN CASE frame.type = "USize" -> Taken(frame.n, Tail(parts))
            [] frame.type \in {"Simple", "Bulk"} ->
                 IF atoi_u64(text) = None THEN ParseError("Other", Tail(parts))
                 ELSE Taken(Unwrap(atoi_u64(text)), Tail(parts))
            [] OTHER -> ParseError("Other", Tail(parts))

next_i64(parts) ==
  IF parts = <<>> THEN ParseError("EndOfStream", parts)
  ELSE LET frame == Head(parts)
           text == IF frame.type = "Simple" THEN frame.text
                   ELSE IF frame.type = "Bulk" THEN frame.bytes ELSE <<>>
       IN CASE frame.type = "Integer" -> Taken(frame.int, Tail(parts))
            [] frame.type \in {"Simple", "Bulk"} ->
                 IF atoi_i64(text) = None THEN ParseError("Other", Tail(parts))
                 ELSE Taken(Unwrap(atoi_i64(text)), Tail(parts))
            [] OTHER -> ParseError("Other", Tail(parts))

\* Parse::finish without the look at what is left
finish_lenient(parts) == Taken(<<>>, parts)

\* Parse::finish
finish(parts) ==
  IF parts = <<>> THEN Taken(<<>>, parts) ELSE ParseError("Other", parts)

RECURSIVE NextStrings(_, _, _)
\* for _ in 0..len { value.push(parse.next_string()?); }
NextStrings(parts, len, out) ==
  IF len = 0 THEN Taken(out, parts)
  ELSE LET s == next_string(parts)
       IN IF ~s.ok THEN s ELSE NextStrings(s.parts, len - 1, Append(out, s.val))

\* ------------------------------------------------------------------------
\* cmd/*.rs: parse_frames of each command. The result is a set of outcomes
\* [res, err, cmd, parts], res "ok", "err" or "panic"
\* ------------------------------------------------------------------------
NoCmd == [name |-> "none"]
Parsed(cmd, parts) == {[res |-> "ok", err |-> "", cmd |-> cmd, parts |-> parts]}
Rejected(err) == {[res |-> "err", err |-> err, cmd |-> NoCmd, parts |-> <<>>]}
Panicked == {[res |-> "panic", err |-> "", cmd |-> NoCmd, parts |-> <<>>]}

Get_parse_frames(parts) ==
  LET key == next_string(parts)
  IN IF ~key.ok THEN Rejected(key.err)
     ELSE Parsed([name |-> "get", key |-> key.val], key.parts)

Pop_parse_frames(parts) ==
  LET key == next_string(parts)
      u == next_u64(key.parts)
  IN IF ~key.ok THEN Rejected(key.err)
     ELSE IF ~u.ok THEN Rejected(u.err)
     ELSE Parsed([name |-> "pop", key |-> key.val, right |-> u.val # 0], u.parts)

\* set key value [ttl-ms]
Set_parse_frames(parts) ==
  LET key == next_string(parts)
      value == next_bytes(key.parts)
      ttl == next_u64(value.parts)
  IN IF ~key.ok THEN Rejected(key.err)
     ELSE IF ~value.ok THEN Rejected(value.err)
     ELSE IF ttl.ok
       THEN Parsed([name |-> "set", key |-> key.val, value |-> value.val,
                    expire |-> Some(ttl.val)], ttl.parts)
     ELSE IF ttl.err = "EndOfStream"
       THEN Parsed([name |-> "set", key |-> key.val, value |-> value.val,
                    expire |-> None], value.parts)
     ELSE Rejected(ttl.err)

Ping_parse_frames(parts) ==
  LET msg == next_bytes(parts)
  IN IF msg.ok THEN Parsed([name |-> "ping", msg |-> Some(msg.val)], msg.parts)
     ELSE IF msg.err = "EndOfStream" THEN Parsed([name |-> "ping", msg |-> None], parts)
     ELSE Rejected(msg.err)

Incrby_parse_frames(parts) ==
  LET key == next_string(parts)
      value == next_i64(key.parts)
  IN IF ~key.ok THEN Rejected(key.err)
     ELSE IF ~value.ok THEN Rejected(value.err)
     ELSE Parsed([name |-> "incrby", key |-> key.val, delta |-> value.val], value.parts)

Lrange_parse_frames(parts) ==
  LET key == next_string(parts)
      start == next_u64(key.parts)
      end == next_u64(start.parts)
  IN IF ~key.ok THEN Rejected(key.err)
     ELSE IF ~start.ok THEN Rejected(start.err)
     ELSE IF ~end.ok THEN Rejected(end.err)
     ELSE Parsed([name |-> "lrange", key |-> key.val, start |-> start.val,
                  end |-> end.val], end.parts)

\* the strings after a count; a count beyond the parts ends in EndOfStream
Counted(cmdname, key, parts, len, right) ==
  LET value == NextStrings(parts, IF len > Len(parts) THEN Len(parts) + 1 ELSE len, <<>>)
  IN IF ~value.ok THEN Rejected(value.err)
     ELSE Parsed([name |-> cmdname, key |-> key, values |-> value.val, right |-> right],
                 value.parts)

\* (-lens) as u64 overflows for i64::MIN: a panic with overflow checks, 2^63
\* without
Push_parse_frames(parts) ==
  LET key == next_string(parts)
      lens == next_i64(key.parts)
  IN IF ~key.ok THEN Rejected(key.err)
     ELSE IF ~lens.ok THEN Rejected(lens.err)
     ELSE IF lens.val > 0 THEN Counted("push", key.val, lens.parts, lens.val, TRUE)
     ELSE IF lens.val = I64Min
       THEN Panicked \cup Counted("push", key.val, lens.parts, -I64Min, FALSE)
     ELSE Counted("push", key.val, lens.parts, -lens.val, FALSE)

Sadd_parse_frames(cmdname, parts) ==
  LET key == next_string(parts)
      len == next_u64(key.parts)
  IN IF ~key.ok THEN Rejected(key.err)
     ELSE IF ~len.ok THEN Rejected(len.err)
     ELSE Counted(cmdname, key.val, len.parts, len.val, TRUE)

Scard_parse_frames(cmdname, parts) ==
  LET key == next_string(parts)
  IN IF ~key.ok THEN Rejected(key.err)
     ELSE Parsed([name |-> cmdname, key |-> key.val], key.parts)

Sismember_parse_frames(parts) ==
  LET key == next_string(parts)
      value == next_string(key.parts)
  IN IF ~key.ok THEN Rejected(key.err)
     ELSE IF ~value.ok THEN Rejected(value.err)
     ELSE Parsed([name |-> "sismember", key |-> key.val, value |-> value.val], value.parts)

Sinter_parse_frames(cmdname, parts) ==
  LET len == next_u64(parts)
  IN IF ~len.ok THEN Rejected(len.err)
     ELSE Counted(cmdname, <<>>, len.parts, len.val, TRUE)

\* ------------------------------------------------------------------------
\* cmd/mod.rs: Command::from_frame
\* ------------------------------------------------------------------------
UpperChars == <<"A", "B", "C", "D", "E", "F", "G", "H", "I", "J", "K", "L", "M",
                "N", "O", "P", "Q", "R", "S", "T", "U", "V", "W", "X", "Y", "Z">>
LowerChars == <<"a", "b", "c", "d", "e", "f", "g", "h", "i", "j", "k", "l", "m",
                "n", "o", "p", "q", "r", "s", "t", "u", "v", "w", "x", "y", "z">>
to_lowercase(text) ==
  [i \in 1..Len(text) |->
     IF \E j \in 1..26 : UpperChars[j] = text[i]
       THEN LowerChars[CHOOSE j \in 1..26 : UpperChars[j] = text[i]]
       ELSE text[i]]

GET == <<"g", "e", "t">>
POP == <<"p", "o", "p">>
SET == <<"s", "e", "t">>
PING == <<"p", "i", "n", "g">>
INCRBY == <<"i", "n", "c", "r", "b", "y">>
LRANGE == <<"l", "r", "a", "n", "g", "e">>
PUSH == <<"p", "u", "s", "h">>
SADD == <<"s", "a", "d", "d">>
SREM == <<"s", "r", "e", "m">>
SCARD == <<"s", "c", "a", "r", "d">>
SISMEMBER == <<"s", "i", "s", "m", "e", "m", "b", "e", "r">>
SISMEMBERS == <<"s", "i", "s", "m", "e", "m", "b", "e", "r", "s">>
SINTER == <<"s", "i", "n", "t", "e", "r">>
SDIFF == <<"s", "d", "i", "f", "f">>
SUNION == <<"s", "u", "n", "i", "o", "n">>

\* the match on the command name; None for a name no arm takes
ParseCommand(command_name, parts) ==
  CASE command_name = GET -> Some(Get_parse_frames(parts))
    [] command_name = POP -> Some(Pop_parse_frames(parts))
    [] command_name = SET -> Some(Set_parse_frames(parts))
    [] command_name = PING -> Some(Ping_parse_frames(parts))
    [] command_name = INCRBY -> Some(Incrby_parse_frames(parts))
    [] command_name = LRANGE -> Some(Lrange_parse_frames(parts))
    [] command_name = PUSH -> Some(Push_parse_frames(parts))
    [] command_name = SADD -> Some(Sadd_parse_frames("sadd", parts))
    [] command_name = SREM -> Some(Sadd_parse_frames("srem", parts))
    [] command_name = SCARD -> Some(Scard_parse_frames("scard", parts))
    [] command_name = SISMEMBER -> Some(Sismember_parse_frames(parts))
    [] command_name = SISMEMBERS -> Some(Scard_parse_frames("sismembers", parts))
    [] command_name = SINTER -> Some(Sinter_parse_frames("sinter", parts))
    [] command_name = SDIFF -> Some(Sinter_parse_frames("sdiff", parts))
    [] command_name = SUNION -> Some(Sinter_parse_frames("sunion", parts))
    [] OTHER -> None

Unknown(command_name) == [name |-> "unknown", command_name |-> command_name]

\* from_frame that takes an unrecognized name for a protocol error
from_frame_unknown_is_error(frame) ==
  LET parse0 == Parse_new(frame)
      first == next_string(parse0.parts)
      command_name == to_lowercase(first.val)
      arm == ParseCommand(command_name, first.parts)
  IN IF ~parse0.ok THEN Rejected(parse0.err)
     ELSE IF ~first.ok THEN Rejected(first.err)
     ELSE IF arm = None THEN Rejected("Other")
     ELSE UNION {IF r.res = "ok" /\ ~finish(r.parts).ok THEN Rejected("Other") ELSE {r}
                 : r \in Unwrap(arm)}

\* Command::from_frame: the set of its outcomes
from_frame(frame) ==
  LET parse0 == Parse_new(frame)
      first == next_string(parse0.parts)
      command_name == to_lowercase(first.val)
      arm == ParseCommand(command_name, first.parts)
  IN IF ~parse0.ok THEN Rejected(parse0.err)
     ELSE IF ~first.ok THEN Rejected(first.err)
     ELSE IF arm = None THEN Parsed(Unknown(command_name), first.parts)
     ELSE UNION {IF r.res = "ok" /\ ~finish(r.parts).ok THEN Rejected("Other") ELSE {r}
                 : r \in Unwrap(arm)}

\* parse_frame that leaves the decoded bytes in the buffer
parse_frame_no_advance(buffer, build) ==
  LET c == check(buffer, 0, build)
  IN IF c.res = "ok"
       THEN LET f == parse(buffer, 0, build)
            IN IF f.res = "ok"
                 THEN [res |-> "frame", frame |-> f.frame, buffer |-> buffer]
                 ELSE [res |-> f.res, frame |-> Null, buffer |-> buffer]
     ELSE IF c.res = "incomplete" THEN [res |-> "none", frame |-> Null, buffer |-> buffer]
     ELSE [res |-> "error", frame |-> Null, buffer |-> buffer]

\* parse_frame that empties the buffer when it has decoded a frame
parse_frame_advances_all(buffer, build) ==
  LET c == check(buffer, 0, build)
  IN IF c.res = "ok"
       THEN LET f == parse(buffer, 0, build)
            IN IF f.res = "ok"
                 THEN [res |-> "frame", frame |-> f.frame, buffer |-> <<>>]
                 ELSE [res |-> IF f.res = "panic" THEN "panic" ELSE "error",
                       frame |-> Null, buffer |-> buffer]
     ELSE IF c.res = "incomplete" THEN [res |-> "none", frame |-> Null, buffer |-> buffer]
     ELSE [res |-> IF c.res = "panic" THEN "panic" ELSE "error",
           frame |-> Null, buffer |-> buffer]

\* Connection::parse_frame: "frame" (Ok(Some)), "none" (Ok(None)), "error"
\* (Err) or "panic", and the buffer it leaves
parse_frame(buffer, build) ==
  LET c == check(buffer, 0, build)
  IN IF c.res = "ok"
       THEN LET len == c.pos
                f == parse(buffer, 0, build)
            IN IF f.res = "ok"
                 THEN [res |-> "frame", frame |-> f.frame,
                       buffer |-> SubSeq(buffer, len + 1, Len(buffer))]
                 ELSE [res |-> IF f.res = "panic" THEN "panic" ELSE "error",
                       frame |-> Null, buffer |-> buffer]
     ELSE IF c.res = "incomplete" THEN [res |-> "none", frame |-> Null, buffer |-> buffer]
     ELSE [res |-> IF c.res = "panic" THEN "panic" ELSE "error",
           frame |-> Null, buffer |-> buffer]

\* ------------------------------------------------------------------------
\* The program state
\* ------------------------------------------------------------------------
VARIABLES
  state,        \* Shared.state: [entries, expirations, shutdown]
  poisoned,     \* poison flag of the Mutex around state
  notified,     \* Shared.background_task holds a stored permit
  now,          \* Instant::now()
  sweeper,      \* purge_expired_tasks: [pc, when]
  handler,      \* per connection: "none", "running", "closed" (returned Ok),
                \* "failed" (returned Err), "panicked"
  last,         \* the last request a handler took: the command and its
                \* arguments, what its key held before, how it ended and
                \* the reply written back
  run_pc,       \* connect::run: "serving", "draining", "returned", "panicked"
  listener_pc,  \* Listener::run: "acquire", "accept", "sleep", "failed",
                \* "cancelled" (its future dropped by the select)
  backoff,      \* Listener::accept: the backoff of the current call
  permits,      \* free permits of limit_connections
  req,          \* Handler::run: the frame read last and what from_frame made
                \* of it
  conn,         \* a Connection on its own: the bytes its peer still sends,
                \* its read buffer, what read_frame returned
  codec,        \* a frame through write_frame, Frame::check and Frame::parse
  task,         \* per connection, where its Handler::run iteration stands:
                \* [pc, read, reply, log, out]
  mutex         \* the Mutex around state with the call that holds it:
                \* [owner, op, pc, before, t, notifying]

vars == <<state, poisoned, notified, now, sweeper, handler, last,
          run_pc, listener_pc, backoff, permits, req, conn, codec, task, mutex>>
engine == <<state, poisoned, notified, now, sweeper>>
listener == <<listener_pc, backoff>>
io == <<conn, codec, task, mutex>>

NoArg == [nil |-> TRUE]
NoRequest == [op |-> "none", key |-> "", arg |-> NoArg, before |-> "none",
              outcome |-> "none", reply |-> None]

\* what a key holds, as recorded in last.before when a request is taken
Kind(st, key) ==
  IF key \notin DOMAIN st.entries THEN "absent"
  ELSE IF st.entries[key].data.type # "String" THEN "list"
  ELSE IF st.entries[key].expires_at # None THEN "string_ttl"
  ELSE "string"

\* Db::new, and the listener holding no connection yet
InitCommon ==
  /\ state = [entries |-> <<>>, expirations |-> {}, shutdown |-> FALSE]
  /\ poisoned = FALSE
  /\ notified = FALSE
  /\ now = 0
  /\ sweeper = [pc |-> "check", when |-> 0]
  /\ last = NoRequest
  /\ run_pc = "serving"
  /\ listener_pc = "acquire"
  /\ backoff = 1

\* nobody holds the mutex and no notify_one is about to be sent
NoOp == [name |-> "none"]
MutexInit ==
  [owner |-> None, op |-> NoOp, pc |-> 0, before |-> NoOp, t |-> 0, notifying |-> {}]

\* every handler starts at the select of Handler::run with nothing read,
\* applied or written
TaskInit ==
  [c \in Conns |-> [pc |-> "select", read |-> 0, reply |-> None, log |-> <<>>, out |-> <<>>]]

\* no request read yet; the connection and the codec on their own are idle
NoFrame == [frame |-> None, result |-> None]
Idle == [stage |-> "idle"]
InitIdle ==
  /\ req = NoFrame
  /\ conn = Idle
  /\ codec = Idle
  /\ task = TaskInit
  /\ mutex = MutexInit

\* the engine is exercised by the connections accepted so far
Init ==
  /\ InitCommon
  /\ InitIdle
  /\ handler = [c \in Conns |-> IF c \in EngineConns THEN "running" ELSE "none"]
  /\ permits = ConnLimit - Cardinality(EngineConns)

\* ------------------------------------------------------------------------
\* connect/server_start.rs: one Handler::run iteration per request
\* ------------------------------------------------------------------------
\* a task that ends and keeps its permit
Terminate_keeps_permit(c, how) ==
  /\ handler' = [handler EXCEPT ![c] = how]
  /\ UNCHANGED permits

\* the spawned task ends: handler and permit are dropped
Terminate(c, how) ==
  /\ handler' = [handler EXCEPT ![c] = how]
  /\ permits' = permits + 1

\* dst.write_frame(&response).await? : written and flushed, or the task
\* returns the transport error
Respond(c, op, key, arg, frame, wok) ==
  /\ last' = [op |-> op, key |-> key, arg |-> arg, before |-> Kind(state, key),
              outcome |-> IF wok THEN "ok" ELSE "ioerr",
              reply |-> IF wok THEN Some(frame) ELSE None]
  /\ IF wok THEN UNCHANGED <<handler, permits>> ELSE Terminate(c, "failed")

\* a panic unwinds the task; a MutexGuard dropped while panicking poisons
\* the mutex (lock().unwrap() on a poisoned mutex panics as well)
Panic(c, op, key, arg) ==
  /\ poisoned' = TRUE
  /\ last' = [op |-> op, key |-> key, arg |-> arg, before |-> Kind(state, key),
              outcome |-> "panic", reply |-> None]
  /\ Terminate(c, "panicked")

\* Get::apply
Get_apply(c, key, wok) ==
  /\ handler[c] = "running"
  /\ UNCHANGED <<notified, now, sweeper, run_pc, listener, io>>
  /\ IF poisoned \/ Db_get(state, key).panic
       THEN Panic(c, "get", key, NoArg) /\ UNCHANGED state
       ELSE LET value == Db_get(state, key).ret
            IN /\ Respond(c, "get", key, NoArg,
                          IF value # None THEN Bulk(Unwrap(value)) ELSE Null, wok)
               /\ UNCHANGED <<state, poisoned>>

\* Set::apply
Set_apply(c, key, value, expire, wok) ==
  /\ handler[c] = "running"
  /\ UNCHANGED <<now, sweeper, run_pc, listener, io>>
  /\ IF poisoned
       THEN Panic(c, "set", key, [value |-> value, expire |-> expire]) /\ UNCHANGED <<state, notified>>
       ELSE LET r == Db_set(state, key, value, expire, now)
            IN /\ state' = r.state
               /\ notified' = (notified \/ r.notify)
               /\ Respond(c, "set", key, [value |-> value, expire |-> expire],
                          Simple(OK), wok)
               /\ UNCHANGED poisoned

\* Incrby::apply
Incrby_apply(c, key, value, wok) ==
  /\ handler[c] = "running"
  /\ UNCHANGED <<notified, now, sweeper, run_pc, listener, io>>
  /\ IF poisoned
       THEN Panic(c, "incrby", key, [delta |-> value]) /\ UNCHANGED state
       ELSE \E r \in Db_incrby(state, key, value) :
              /\ state' = r.state
              /\ IF r.panic
                   THEN Panic(c, "incrby", key, [delta |-> value])
                   ELSE /\ Respond(c, "incrby", key, [delta |-> value], Simple(OK), wok)
                        /\ UNCHANGED poisoned

\* Push::apply
Push_apply(c, key, value, right, wok) ==
  /\ handler[c] = "running"
  /\ UNCHANGED <<now, sweeper, run_pc, listener, io>>
  /\ IF poisoned
       THEN Panic(c, "push", key, [values |-> value, right |-> right]) /\ UNCHANGED <<state, notified>>
       ELSE LET r == Db_push(state, key, value, right)
            IN /\ state' = r.state
               /\ notified' = (notified \/ r.notify)
               /\ Respond(c, "push", key, [values |-> value, right |-> right],
                          Simple(OK), wok)
               /\ UNCHANGED poisoned

\* Pop::apply
Pop_apply(c, key, right, wok) ==
  /\ handler[c] = "running"
  /\ UNCHANGED <<notified, now, sweeper, run_pc, listener, io>>
  /\ IF poisoned
       THEN Panic(c, "pop", key, [right |-> right]) /\ UNCHANGED state
       ELSE LET r == Db_pop(state, key, right)
            IN /\ state' = r.state
               /\ Respond(c, "pop", key, [right |-> right],
                          IF r.ret # None THEN Bulk(Unwrap(r.ret)) ELSE Null, wok)
               /\ UNCHANGED poisoned

\* Ping::apply: no engine access
Ping_apply(c, msg, wok) ==
  /\ handler[c] = "running"
  /\ Respond(c, "ping", "", [msg |-> msg],
             IF msg = None THEN Simple(<<"P", "O", "N", "G">>) ELSE Bulk(Unwrap(msg)), wok)
  /\ UNCHANGED <<engine, run_pc, listener, io>>

\* Unknown::apply: an Error reply naming the command, no engine access
Unknown_apply(c, command_name, wok) ==
  /\ handler[c] = "running"
  /\ Respond(c, "unknown", "", [command_name |-> command_name], Error(command_name), wok)
  /\ UNCHANGED <<engine, run_pc, listener, io>>

\* the engine key a key text names
KeyText == [k \in KeySet |-> [i \in 1..Len(k) |-> IF i = 1 THEN "k" ELSE IF k = Keys[1] THEN "1" ELSE "2"]]
KnownKey(text) == \E k \in KeySet : KeyText[k] = text
KeyNamed(text) == CHOOSE k \in KeySet : KeyText[k] = text

\* Command::apply: the match on the variant
Command_apply(c, cmd, wok) ==
  \/ /\ cmd.name = "get" /\ KnownKey(cmd.key)
     /\ Get_apply(c, KeyNamed(cmd.key), wok)
  \/ /\ cmd.name = "set" /\ KnownKey(cmd.key)
     /\ Set_apply(c, KeyNamed(cmd.key), cmd.value, cmd.expire, wok)
  \/ /\ cmd.name = "incrby" /\ KnownKey(cmd.key)
     /\ Incrby_apply(c, KeyNamed(cmd.key), cmd.delta, wok)
  \/ /\ cmd.name = "push" /\ KnownKey(cmd.key)
     /\ Push_apply(c, KeyNamed(cmd.key), cmd.values, cmd.right, wok)
  \/ /\ cmd.name = "pop" /\ KnownKey(cmd.key)
     /\ Pop_apply(c, KeyNamed(cmd.key), cmd.right, wok)
  \/ /\ cmd.name = "ping"
     /\ Ping_apply(c, cmd.msg, wok)
  \/ /\ cmd.name = "unknown"
     /\ Unknown_apply(c, cmd.command_name, wok)

\* Command::from_frame(frame)? returns Err: run returns it, the task ends
\* and nothing is written to the peer
Reject(c) ==
  /\ last' = [op |-> "rejected", key |-> "", arg |-> NoArg, before |-> "absent",
              outcome |-> "err", reply |-> None]
  /\ Terminate(c, "failed")
  /\ UNCHANGED <<engine, run_pc, listener, io>>

\* a panic while parsing: no lock is held
ParsePanic(c) ==
  /\ last' = [op |-> "rejected", key |-> "", arg |-> NoArg, before |-> "absent",
              outcome |-> "panic", reply |-> None]
  /\ Terminate(c, "panicked")
  /\ UNCHANGED <<engine, run_pc, listener, io>>

\* one iteration of Handler::run over a frame read_frame returned:
\* from_frame, then apply
Handler_run(c, frame, wok) ==
  /\ handler[c] = "running"
  /\ \E r \in from_frame(frame) :
       /\ req' = [frame |-> Some(frame),
                  result |-> Some([res |-> r.res, err |-> r.err, cmd |-> r.cmd])]
       /\ \/ r.res = "panic" /\ ParsePanic(c)
          \/ r.res = "err" /\ Reject(c)
          \/ r.res = "ok" /\ Command_apply(c, r.cmd, wok)

\* read_frame returns Ok(None): the peer closed the stream between requests
EndOfStream(c) ==
  /\ handler[c] = "running"
  /\ Terminate(c, "closed")
  /\ UNCHANGED <<engine, last, run_pc, listener, io, req>>

\* a transport error that takes every running handler down
TransportError_ends_all(c) ==
  /\ handler[c] = "running"
  /\ handler' = [d \in Conns |-> IF handler[d] = "running" THEN "failed" ELSE handler[d]]
  /\ permits' = permits + Cardinality({d \in Conns : handler[d] = "running"})
  /\ UNCHANGED <<engine, last, run_pc, listener, io, req>>

\* read_frame returns Err: socket read failure or stream ended mid-message
TransportError(c) ==
  /\ handler[c] = "running"
  /\ Terminate(c, "failed")
  /\ UNCHANGED <<engine, last, run_pc, listener, io, req>>

\* the select in Handler::run resolves to shutdown.recv(): the broadcast
\* sender was dropped by connect::run
HandlerShutdown(c) ==
  /\ handler[c] = "running"
  /\ run_pc # "serving"
  /\ Terminate(c, "closed")
  /\ UNCHANGED <<engine, last, run_pc, listener, io, req>>

\* ------------------------------------------------------------------------
\* Listener::run and Listener::accept
\* ------------------------------------------------------------------------
\* an accept loop that goes on to accept without a permit
ListenerAcquire_without_permit ==
  /\ run_pc = "serving"
  /\ listener_pc = "acquire"
  /\ listener_pc' = "accept"
  /\ backoff' = 1
  /\ UNCHANGED <<engine, handler, last, run_pc, permits, io, req>>

\* limit_connections.acquire_owned() returns a permit; accept() starts
ListenerAcquire ==
  /\ run_pc = "serving"
  /\ listener_pc = "acquire"
  /\ permits > 0
  /\ permits' = permits - 1
  /\ listener_pc' = "accept"
  /\ backoff' = 1
  /\ UNCHANGED <<engine, handler, last, run_pc, io, req>>

\* an accept loop that closes the socket it accepted
AcceptOk_drops_connection ==
  /\ run_pc = "serving"
  /\ listener_pc = "accept"
  /\ \E c \in Conns :
       /\ handler[c] = "none"
       /\ \A d \in Conns : d < c => handler[d] # "none"
       /\ handler' = [handler EXCEPT ![c] = "closed"]
  /\ listener_pc' = "acquire"
  /\ permits' = permits + 1
  /\ UNCHANGED <<engine, last, run_pc, backoff, io, req>>

\* listener.accept() returns a socket: the handler task is spawned with the
\* permit
AcceptOk ==
  /\ run_pc = "serving"
  /\ listener_pc = "accept"
  /\ \E c \in Conns :
       /\ handler[c] = "none"
       /\ \A d \in Conns : d < c => handler[d] # "none"
       /\ handler' = [handler EXCEPT ![c] = "running"]
  /\ listener_pc' = "acquire"
  /\ UNCHANGED <<engine, last, run_pc, backoff, permits, io, req>>

\* an accept that gives up as soon as the backoff has reached 64
AcceptErr_gives_up_at_limit ==
  /\ run_pc = "serving"
  /\ listener_pc = "accept"
  /\ IF backoff >= ACCEPT_BACKOFF_LIMIT
       THEN /\ listener_pc' = "failed"
            /\ run_pc' = "draining"
            /\ permits' = permits + 1
       ELSE /\ listener_pc' = "sleep"
            /\ UNCHANGED <<run_pc, permits>>
  /\ UNCHANGED <<engine, handler, last, backoff, io, req>>

\* listener.accept() returns an error: give up once backoff exceeds 64 (run
\* returns the error, the select resolves and the permit is dropped), sleep
\* otherwise
AcceptErr ==
  /\ run_pc = "serving"
  /\ listener_pc = "accept"
  /\ IF backoff > ACCEPT_BACKOFF_LIMIT
       THEN /\ listener_pc' = "failed"
            /\ run_pc' = "draining"
            /\ permits' = permits + 1
       ELSE /\ listener_pc' = "sleep"
            /\ UNCHANGED <<run_pc, permits>>
  /\ UNCHANGED <<engine, handler, last, backoff, io, req>>

\* time::sleep(backoff seconds) completes; backoff *= 2
BackoffElapsed ==
  /\ run_pc = "serving"
  /\ listener_pc = "sleep"
  /\ backoff' = backoff * 2
  /\ listener_pc' = "accept"
  /\ UNCHANGED <<engine, handler, last, run_pc, permits, io, req>>

\* ------------------------------------------------------------------------
\* connect::run: the select against the external shutdown future, the drain
\* ------------------------------------------------------------------------
\* the select drops the Listener::run future, and with it the permit that
\* future holds between acquire_owned and the spawn
ShutdownSignal ==
  /\ run_pc = "serving"
  /\ run_pc' = "draining"
  /\ listener_pc' = "cancelled"
  /\ permits' = permits + (IF listener_pc \in {"accept", "sleep"} THEN 1 ELSE 0)
  /\ UNCHANGED <<engine, handler, last, backoff, io, req>>

\* a run that does not wait for the completion channel to close
RunReturn_without_wait ==
  /\ run_pc = "draining"
  /\ run_pc' = IF poisoned THEN "panicked" ELSE "returned"
  /\ IF poisoned
       THEN UNCHANGED <<state, notified>>
       ELSE state' = [state EXCEPT !.shutdown = TRUE] /\ notified' = TRUE
  /\ UNCHANGED <<poisoned, now, sweeper, handler, last, listener, permits, io, req>>

\* shutdown_complete_rx.recv() yields None once every handler dropped its
\* sender; at the end of run the DbDropGuard is dropped
\* (Db::shutdown_purge_task): on a poisoned mutex its lock().unwrap()
\* panics and run unwinds instead of returning
RunReturn ==
  /\ run_pc = "draining"
  /\ \A c \in Conns : handler[c] # "running"
  /\ run_pc' = IF poisoned THEN "panicked" ELSE "returned"
  /\ IF poisoned
       THEN UNCHANGED <<state, notified>>
       ELSE state' = [state EXCEPT !.shutdown = TRUE] /\ notified' = TRUE
  /\ UNCHANGED <<poisoned, now, sweeper, handler, last, listener, permits, io, req>>

\* ------------------------------------------------------------------------
\* Handler::run step by step: the select, from_frame, the engine call of
\* apply, the write of the reply. Shutdown::is_shutdown is set only by
\* Shutdown::recv, whose branch returns from run at once, so the loop
\* condition never ends the loop by itself
\* ------------------------------------------------------------------------
SetCmd == [name |-> "set", key |-> Keys[1], value |-> <<"x">>]
GetCmd == [name |-> "get", key |-> Keys[1]]

\* the requests the peer of connection c sends, all of them in flight
Script(c) == [i \in 1..MaxRequests |-> IF (i + c) % 2 = 0 THEN SetCmd ELSE GetCmd]

\* the command the handler of c read last
Current(c) == Script(c)[task[c].read]

\* a handler that takes the next frame while a reply is still to be written
RunRead_before_reply(c) ==
  /\ handler[c] = "running"
  /\ task[c].pc \in {"select", "applied"}
  /\ task[c].read < MaxRequests
  /\ task' = [task EXCEPT ![c].pc = "parsed", ![c].read = @ + 1]
  /\ UNCHANGED <<engine, handler, last, run_pc, listener, permits, req, conn, codec, mutex>>

\* the select takes the read_frame branch: a frame is there, from_frame
\* builds the command. The select polls its branches in random order, so
\* this branch can win whether or not the shutdown branch is ready
RunRead(c) ==
  /\ handler[c] = "running"
  /\ task[c].pc = "select"
  /\ task[c].read < MaxRequests
  /\ task' = [task EXCEPT ![c].pc = "parsed", ![c].read = @ + 1]
  /\ UNCHANGED <<engine, handler, last, run_pc, listener, permits, req, conn, codec, mutex>>

\* cmd.apply: the call into the Db, under its mutex
RunApply(c) ==
  /\ handler[c] = "running"
  /\ task[c].pc = "parsed"
  /\ LET cmd == Current(c)
     IN IF poisoned \/ (cmd.name = "get" /\ Db_get(state, cmd.key).panic)
          THEN /\ poisoned' = TRUE
               /\ Terminate(c, "panicked")
               /\ UNCHANGED <<state, notified, task>>
          ELSE /\ IF cmd.name = "set"
                    THEN LET r == Db_set(state, cmd.key, cmd.value, None, now)
                         IN /\ state' = r.state
                            /\ notified' = (notified \/ r.notify)
                            /\ task' = [task EXCEPT ![c].pc = "applied",
                                                     ![c].reply = Some(Simple(OK)),
                                                     ![c].log = Append(@, cmd)]
                    ELSE LET value == Db_get(state, cmd.key).ret
                         IN /\ task' = [task EXCEPT ![c].pc = "applied",
                                         ![c].reply = Some(IF value # None THEN Bulk(Unwrap(value)) ELSE Null),
                                         ![c].log = Append(@, cmd)]
                            /\ UNCHANGED <<state, notified>>
               /\ UNCHANGED <<poisoned, handler, permits>>
  /\ UNCHANGED <<now, sweeper, last, run_pc, listener, req, conn, codec, mutex>>

\* dst.write_frame(&response).await? : the reply is written and flushed,
\* or the write fails and run returns the error
RunWrite(c, wok) ==
  /\ handler[c] = "running"
  /\ task[c].pc = "applied"
  /\ IF wok
       THEN /\ task' = [task EXCEPT ![c].pc = "select", ![c].reply = None,
                                    ![c].out = Append(@, Unwrap(task[c].reply))]
            /\ UNCHANGED <<handler, permits>>
       ELSE Terminate(c, "failed") /\ UNCHANGED task
  /\ UNCHANGED <<engine, last, run_pc, listener, req, conn, codec, mutex>>

\* a handler that takes the shutdown wherever it stands
RunShutdown_at_any_point(c) == HandlerShutdown(c)

\* the select takes the shutdown branch
RunShutdown(c) ==
  /\ task[c].pc = "select"
  /\ HandlerShutdown(c)

\* the select takes the read_frame branch and the peer has closed the
\* stream after its last request
RunEof(c) ==
  /\ task[c].pc = "select"
  /\ task[c].read = MaxRequests
  /\ EndOfStream(c)

\* ------------------------------------------------------------------------
\* entity/db.rs: purge_expired_tasks, the background sweeper
\* ------------------------------------------------------------------------
\* while !shared.is_shutdown()
SweeperCheck ==
  /\ sweeper.pc = "check"
  /\ sweeper' = [pc |-> IF poisoned THEN "panicked"
                        ELSE IF state.shutdown THEN "done" ELSE "purge",
                 when |-> 0]
  /\ UNCHANGED <<state, poisoned, notified, now, handler, last, run_pc, listener, permits, io, req>>

\* shared.purge_expired_keys(), then entering the select or the bare wait
SweeperPurge ==
  /\ sweeper.pc = "purge"
  /\ IF poisoned
       THEN sweeper' = [pc |-> "panicked", when |-> 0] /\ UNCHANGED state
       ELSE LET r == purge_expired_keys(state, now)
            IN /\ state' = r.state
               /\ sweeper' = IF r.ret # None
                               THEN [pc |-> "sleep", when |-> Unwrap(r.ret)]
                               ELSE [pc |-> "wait", when |-> 0]
  /\ UNCHANGED <<poisoned, notified, now, handler, last, run_pc, listener, permits, io, req>>

\* time::sleep_until(when) completes
SweeperTimeout ==
  /\ sweeper.pc = "sleep"
  /\ now >= sweeper.when
  /\ sweeper' = [pc |-> "check", when |-> 0]
  /\ UNCHANGED <<state, poisoned, notified, now, handler, last, run_pc, listener, permits, io, req>>

\* background_task.notified() completes, consuming the stored permit
SweeperNotified ==
  /\ sweeper.pc \in {"sleep", "wait"}
  /\ notified
  /\ notified' = FALSE
  /\ sweeper' = [pc |-> "check", when |-> 0]
  /\ UNCHANGED <<state, poisoned, now, handler, last, run_pc, listener, permits, io, req>>

\* time passes
Tick ==
  /\ now < MaxTime
  /\ now' = now + 1
  /\ UNCHANGED <<state, poisoned, notified, sweeper, handler, last, run_pc,
                 listener, permits, io, req>>

\* ------------------------------------------------------------------------
\* The engine under the connections accepted so far
\* ------------------------------------------------------------------------
Expires == {None} \cup {Some(d) : d \in TTLs}

\* the inputs keep stored numbers and lists within the bounds
IncrbyInBounds(key, value) ==
  key \in DOMAIN state.entries /\ state.entries[key].data.type = "String" =>
    LET parsed == bytes_to_i64(state.entries[key].data.bytes)
    IN parsed.ok => parsed.val + value \in (-MaxNum)..MaxNum
PushInBounds(key, value, cap) ==
  IF key \in DOMAIN state.entries /\ state.entries[key].data.type = "List"
    THEN Len(state.entries[key].data.list) + Len(value) <= cap
    ELSE Len(value) <= cap

\* string commands, one-element lists, the sweeper and the clock; replies
\* are delivered
Next ==
  \/ \E c \in Conns, key \in KeySet : Get_apply(c, key, TRUE) /\ UNCHANGED req
  \/ \E c \in Conns, key \in KeySet, value \in SetValues, expire \in Expires :
       Set_apply(c, key, value, expire, TRUE) /\ UNCHANGED req
  \/ \E c \in Conns, key \in KeySet, value \in Deltas :
       IncrbyInBounds(key, value) /\ Incrby_apply(c, key, value, TRUE) /\ UNCHANGED req
  \/ \E c \in Conns, key \in KeySet, right \in BOOLEAN :
       PushInBounds(key, <<"a">>, MaxEngineList) /\ Push_apply(c, key, <<<<"a">>>>, right, TRUE) /\ UNCHANGED req
  \/ SweeperCheck
  \/ SweeperPurge
  \/ SweeperTimeout
  \/ SweeperNotified
  \/ Tick

Spec == Init /\ [][Next]_vars

\* writes with and without TTL, reads, the sweeper and the clock
NextTtl ==
  \/ \E c \in Conns, key \in KeySet : Get_apply(c, key, TRUE) /\ UNCHANGED req
  \/ \E c \in Conns, key \in KeySet, value \in SetValues, expire \in Expires :
       Set_apply(c, key, value, expire, TRUE) /\ UNCHANGED req
  \/ SweeperCheck
  \/ SweeperPurge
  \/ SweeperTimeout
  \/ SweeperNotified
  \/ Tick

\* the runtime keeps scheduling the sweeper task, and time passes
FairSpec ==
  /\ Init /\ [][NextTtl]_vars
  /\ WF_vars(SweeperCheck)
  /\ WF_vars(SweeperPurge)
  /\ WF_vars(SweeperTimeout)
  /\ WF_vars(SweeperNotified)
  /\ WF_vars(Tick)

\* list commands under transports that may fail
NextPush ==
  \/ \E c \in Conns, key \in KeySet, value \in PushValues,
        right \in BOOLEAN, wok \in BOOLEAN :
       PushInBounds(key, value, MaxListLen) /\ Push_apply(c, key, value, right, wok) /\ UNCHANGED req
  \/ \E c \in Conns, key \in KeySet, right \in BOOLEAN, wok \in BOOLEAN :
       Pop_apply(c, key, right, wok) /\ UNCHANGED req
  \/ \E c \in Conns, key \in KeySet, wok \in BOOLEAN :
       Set_apply(c, key, <<"x">>, None, wok) /\ UNCHANGED req
  \/ \E c \in Conns : EndOfStream(c)
  \/ \E c \in Conns : TransportError(c)

SpecPush == Init /\ [][NextPush]_vars

\* increments at the upper end of the i64 range
EdgeValue == i64_to_string(I64Max - 1)
\* a delta that stays in range and one that leaves it
EdgeDeltas == {1, 2}

NextI64 ==
  \/ \E c \in Conns, key \in KeySet : Set_apply(c, key, EdgeValue, None, TRUE) /\ UNCHANGED req
  \/ \E c \in Conns, value \in EdgeDeltas :
       Incrby_apply(c, Keys[1], value, TRUE) /\ UNCHANGED req
  \/ \E c \in Conns, key \in KeySet : Get_apply(c, key, TRUE) /\ UNCHANGED req

SpecI64 == Init /\ [][NextI64]_vars

\* ------------------------------------------------------------------------
\* Requests as frames: what a handler makes of the messages clients send
\* ------------------------------------------------------------------------
Request(fields) == Array([i \in 1..Len(fields) |-> Bulk(fields[i])])
WithExtra(frame) == Array(Append(frame.elems, Bulk(<<"x">>)))
K1 == KeyText[Keys[1]]
K2 == KeyText[Keys[2]]
FOO == <<"f", "o", "o">>

\* one request per known command, with every field the command takes
FullRequests ==
  { Request(<<GET, K1>>), Request(<<POP, K1, <<"1">>>>),
    Request(<<SET, K1, <<"x">>, <<"1">>>>), Request(<<PING, <<"a">>>>),
    Request(<<INCRBY, K1, <<"1">>>>), Request(<<LRANGE, K1, <<"0">>, <<"1">>>>),
    Request(<<PUSH, K1, <<"1">>, <<"a">>>>), Request(<<SADD, K1, <<"1">>, <<"a">>>>),
    Request(<<SREM, K1, <<"1">>, <<"a">>>>), Request(<<SCARD, K1>>),
    Request(<<SISMEMBER, K1, <<"a">>>>), Request(<<SISMEMBERS, K1>>),
    Request(<<SINTER, <<"1">>, K1>>), Request(<<SDIFF, <<"1">>, K1>>),
    Request(<<SUNION, <<"1">>, K1>>) }

\* the commands whose apply is modelled
Applied == {"get", "pop", "set", "ping", "incrby", "push", "unknown"}

WellFormed ==
  { f \in FullRequests : \A r \in from_frame(f) : r.res = "ok" => r.cmd.name \in Applied }
    \cup
  { Request(<<SET, K1, <<"x">>>>), Request(<<SET, K1, <<"+", "1">>>>),
    Request(<<PING>>), Request(<<<<"G", "E", "T">>, K2>>),
    Request(<<POP, K1, <<"0">>>>),
    Array(<<Bulk(PUSH), Bulk(K1), Integer(-2), Bulk(<<"a">>), Bulk(<<"b">>)>>),
    Array(<<Bulk(INCRBY), Bulk(K1), Integer(-1)>>) }

UnknownRequests ==
  { Request(<<FOO>>), Request(<<FOO, K1, <<"x">>>>), Request(<<<<"F", "o", "o">>>>) }

TooManyFields == { WithExtra(f) : f \in FullRequests }

TooFewFields ==
  { Request(<<GET>>), Request(<<SET, K1>>), Request(<<INCRBY, K1>>),
    Request(<<PUSH, K1, <<"2">>, <<"a">>>>), Request(<<LRANGE, K1, <<"0">>>>) }

WrongFieldType ==
  { Array(<<Bulk(GET), USize(1)>>), Array(<<Bulk(GET), Null>>),
    Request(<<INCRBY, K1, <<"x">>>>), Array(<<Bulk(POP), Bulk(K1), Null>>),
    Array(<<Bulk(SET), Bulk(K1), Bulk(<<"x">>), Null>>) }

NotUtf8 == { Array(<<Bulk(GET), Bulk(<<Byte80>>)>>), Array(<<Bulk(<<Byte80>>)>>) }

NotACommand == { Simple(<<"a">>), Null, Array(<<>>) }

RequestFrames ==
  WellFormed \cup UnknownRequests \cup TooManyFields \cup TooFewFields
    \cup WrongFieldType \cup NotUtf8 \cup NotACommand

\* the inputs keep stored numbers and lists within the bounds
RequestInBounds(frame) ==
  \A r \in from_frame(frame) :
    r.res = "ok" /\ r.cmd.name \in {"incrby", "push"} /\ KnownKey(r.cmd.key) =>
      IF r.cmd.name = "incrby"
        THEN IncrbyInBounds(KeyNamed(r.cmd.key), r.cmd.delta)
        ELSE PushInBounds(KeyNamed(r.cmd.key), r.cmd.values, MaxListLen)

NextReq ==
  \E c \in Conns, frame \in RequestFrames, wok \in BOOLEAN :
    RequestInBounds(frame) /\ Handler_run(c, frame, wok)

SpecReq == Init /\ [][NextReq]_vars

\* ------------------------------------------------------------------------
\* The server: listener, handlers and shutdown around a small engine
\* ------------------------------------------------------------------------
InitSrv ==
  /\ InitCommon
  /\ InitIdle
  /\ handler = [c \in Conns |-> "none"]
  /\ permits = ConnLimit

\* a request the server rejects: GET with a field too many
MalformedRequest == Array(<<Bulk(<<"g", "e", "t">>), Bulk(<<"k", "1">>), Bulk(<<"x">>)>>)

NextSrv ==
  \/ ListenerAcquire
  \/ AcceptOk
  \/ AcceptErr
  \/ BackoffElapsed
  \/ ShutdownSignal
  \/ RunReturn
  \/ \E c \in Conns : HandlerShutdown(c)
  \/ \E c \in Conns : EndOfStream(c)
  \/ \E c \in Conns : TransportError(c)
  \/ \E c \in Conns, key \in KeySet, wok \in BOOLEAN : Get_apply(c, key, wok) /\ UNCHANGED req
  \/ \E c \in Conns, value \in SetValues, wok \in BOOLEAN :
       Set_apply(c, Keys[1], value, None, wok) /\ UNCHANGED req
  \/ \E c \in Conns : Handler_run(c, MalformedRequest, TRUE)

SpecSrv == InitSrv /\ [][NextSrv]_vars

\* admission while the server keeps serving: accept() succeeds and no
\* shutdown is signalled
NextAdmit ==
  \/ ListenerAcquire
  \/ AcceptOk
  \/ \E c \in Conns : EndOfStream(c)
  \/ \E c \in Conns : TransportError(c)
  \/ \E c \in Conns, key \in KeySet, wok \in BOOLEAN : Get_apply(c, key, wok) /\ UNCHANGED req
  \/ \E c \in Conns, value \in SetValues, wok \in BOOLEAN :
       Set_apply(c, Keys[1], value, None, wok) /\ UNCHANGED req
  \/ \E c \in Conns : Handler_run(c, MalformedRequest, TRUE)

\* the runtime keeps polling the listener task: acquire_owned resolves
\* while a permit is free, accept resolves while a connection waits
FairAdmit ==
  /\ InitSrv /\ [][NextAdmit]_vars
  /\ WF_vars(ListenerAcquire)
  /\ WF_vars(AcceptOk)

\* the server with its handlers step by step
NextDrain ==
  \/ ListenerAcquire
  \/ AcceptOk
  \/ AcceptErr
  \/ BackoffElapsed
  \/ ShutdownSignal
  \/ RunReturn
  \/ \E c \in Conns : RunRead(c)
  \/ \E c \in Conns : RunApply(c)
  \/ \E c \in Conns, wok \in BOOLEAN : RunWrite(c, wok)
  \/ \E c \in Conns : RunShutdown(c)
  \/ \E c \in Conns : RunEof(c)

SpecDrain == InitSrv /\ [][NextDrain]_vars

\* the runtime keeps polling every task: a handler at its select with the
\* shutdown branch ready leaves, an engine call and a write come to an
\* end, and run goes on once the completion channel is closed
FairDrain ==
  /\ SpecDrain
  /\ \A c \in Conns : WF_vars(RunShutdown(c) \/ RunRead(c))
  /\ \A c \in Conns : WF_vars(RunApply(c))
  /\ \A c \in Conns : WF_vars(\E wok \in BOOLEAN : RunWrite(c, wok))
  /\ WF_vars(RunReturn)

\* ------------------------------------------------------------------------
\* entity/db.rs write by write: each call locks the mutex, makes its writes
\* to the State one after the other, unlocks, and only then calls
\* notify_one. Section(op, st, t) is what a call does between lock and
\* unlock: the states after each of its writes, whether it panics after
\* them, whether it will notify and what it returns
\* ------------------------------------------------------------------------
SweeperId == MaxConns + 1
GuardId == MaxConns + 2

\* a set that also notifies for a deadline equal to the earliest one
SetNotify_not_later(st, expires_at) ==
  /\ expires_at # None
  /\ \/ next_expiration(st) = None
     \/ Unwrap(next_expiration(st)) >= Unwrap(expires_at)

\* Db::set: let notify = state.next_expiration().map(|e| e > when)
\* .unwrap_or(true), for a set with a TTL
SetNotify(st, expires_at) ==
  /\ expires_at # None
  /\ \/ next_expiration(st) = None
     \/ Unwrap(next_expiration(st)) > Unwrap(expires_at)

\* Db::set: entries.insert, expirations.remove of the previous pair,
\* expirations.insert of the new one
SetSection(st, op, t) ==
  LET expires_at == IF op.expire = None THEN None ELSE Some(t + Unwrap(op.expire))
      notify == SetNotify(st, expires_at)
      old == IF op.key \in DOMAIN st.entries /\ st.entries[op.key].expires_at # None
               THEN {<<Unwrap(st.entries[op.key].expires_at), op.key>>}
               ELSE {}
      s1 == [st EXCEPT !.entries = Insert(@, op.key, Entry(String(op.value), expires_at))]
      s2 == [s1 EXCEPT !.expirations = @ \ old]
      s3 == [s2 EXCEPT !.expirations = @ \cup {<<w, op.key>> : w \in expires_at}]
  IN [steps |-> <<s1>> \o (IF old # {} THEN <<s2>> ELSE <<>>)
                       \o (IF expires_at # None THEN <<s3>> ELSE <<>>),
      panic |-> FALSE, notify |-> notify, ret |-> None]

\* Db::push: entries.insert of a new list, or one push_back / push_front
\* per value
PushSection(st, op) ==
  [steps |->
     IF op.key \notin DOMAIN st.entries
       THEN <<[st EXCEPT !.entries = Insert(@, op.key,
                 Entry(List(IF op.right THEN op.values ELSE Reverse(op.values)), None))]>>
     ELSE IF st.entries[op.key].data.type = "List"
       THEN [i \in 1..Len(op.values) |->
               [st EXCEPT !.entries[op.key].data =
                  List(PushEach(st.entries[op.key].data.list, SubSeq(op.values, 1, i), op.right))]]
     ELSE <<>>,
   panic |-> FALSE, notify |-> FALSE, ret |-> None]

\* Db::incrby: the one write of the new decimal, and the panic of an
\* unwrap after or before it
IncrbySection(st, op) ==
  LET r == CHOOSE x \in Db_incrby(st, op.key, op.delta) : TRUE
  IN [steps |-> IF r.state = st THEN <<>> ELSE <<r.state>>,
      panic |-> r.panic, notify |-> FALSE, ret |-> r.ret]

\* Db::get: no write
GetSection(st, op) ==
  [steps |-> <<>>, panic |-> Db_get(st, op.key).panic, notify |-> FALSE,
   ret |-> Db_get(st, op.key).ret]

RECURSIVE PurgeSteps_before_now(_, _)
\* a purge loop that stops at a pair whose instant is now
PurgeSteps_before_now(st, t) ==
  IF st.expirations = {} THEN <<>>
  ELSE LET p == FirstPair(st.expirations)
           s1 == [st EXCEPT !.entries = Remove(@, p[2])]
           s2 == [s1 EXCEPT !.expirations = @ \ {p}]
       IN IF p[1] >= t THEN <<>> ELSE <<s1, s2>> \o PurgeSteps_before_now(s2, t)

RECURSIVE PurgeSteps(_, _)
\* the loop of purge_expired_keys: entries.remove, then expirations.remove
PurgeSteps(st, t) ==
  IF st.expirations = {} THEN <<>>
  ELSE LET p == FirstPair(st.expirations)
           s1 == [st EXCEPT !.entries = Remove(@, p[2])]
           s2 == [s1 EXCEPT !.expirations = @ \ {p}]
       IN IF p[1] > t THEN <<>> ELSE <<s1, s2>> \o PurgeSteps(s2, t)

\* a purge pass that does not look at the shutdown flag
PurgeSection_ignores_shutdown(st, t) ==
  LET steps == PurgeSteps(st, t)
      final == IF steps = <<>> THEN st ELSE steps[Len(steps)]
  IN [steps |-> steps, panic |-> FALSE, notify |-> FALSE, ret |-> next_expiration(final)]

\* Shared::purge_expired_keys
PurgeSection(st, t) ==
  LET steps == IF st.shutdown THEN <<>> ELSE PurgeSteps(st, t)
      final == IF steps = <<>> THEN st ELSE steps[Len(steps)]
  IN [steps |-> steps, panic |-> FALSE, notify |-> FALSE,
      ret |-> IF st.shutdown THEN None ELSE next_expiration(final)]

\* a get that hides an entry whose expires_at has passed
Section_get_checks_expiry(op, st, t) ==
  CASE op.name = "set" -> SetSection(st, op, t)
    [] op.name = "push" -> PushSection(st, op)
    [] op.name = "incrby" -> IncrbySection(st, op)
    [] op.name = "get" ->
         IF /\ op.key \in DOMAIN st.entries
            /\ st.entries[op.key].expires_at # None
            /\ Unwrap(st.entries[op.key].expires_at) <= t
           THEN [steps |-> <<>>, panic |-> FALSE, notify |-> FALSE, ret |-> None]
           ELSE GetSection(st, op)
    [] op.name = "purge" -> PurgeSection(st, t)

Section(op, st, t) ==
  CASE op.name = "set" -> SetSection(st, op, t)
    [] op.name = "push" -> PushSection(st, op)
    [] op.name = "incrby" -> IncrbySection(st, op)
    [] op.name = "get" -> GetSection(st, op)
    [] op.name = "purge" -> PurgeSection(st, t)

\* the section of the call that holds the mutex
Held == Section(mutex.op, mutex.before, mutex.t)

\* the calls the handlers make: the first connection writes strings with
\* and without a TTL, the others read, add and push at the head
LockOps(c) ==
  IF c = 1
    THEN {[name |-> "set", key |-> Keys[1], value |-> <<"1">>, expire |-> e] : e \in Expires}
           \cup {[name |-> "set", key |-> Keys[2], value |-> <<"1">>, expire |-> Some(1)]}
    ELSE {[name |-> "get", key |-> Keys[1]],
          [name |-> "incrby", key |-> Keys[1], delta |-> -2],
          [name |-> "push", key |-> Keys[2], values |-> <<<<"a">>, <<"b">>>>, right |-> FALSE]}

OpInBounds(op) ==
  /\ op.name = "incrby" => IncrbyInBounds(op.key, op.delta)
  /\ op.name = "push" => PushInBounds(op.key, op.values, MaxListLen)

\* self.shared.state.lock().unwrap() in a handler's call: the mutex is
\* free and the caller owns it from here; on a poisoned mutex the caller
\* panics
DbLock(c, op) ==
  /\ handler[c] = "running"
  /\ c \notin mutex.notifying
  /\ mutex.owner = None
  /\ IF poisoned
       THEN /\ Terminate(c, "panicked")
            /\ UNCHANGED mutex
       ELSE /\ mutex' = [mutex EXCEPT !.owner = Some(c), !.op = op, !.pc = 0,
                                      !.before = state, !.t = now]
            /\ UNCHANGED <<handler, permits>>
  /\ UNCHANGED <<engine, last, run_pc, listener, req, conn, codec, task>>

\* the next write of the call that holds the mutex
DbStep ==
  /\ mutex.owner # None
  /\ mutex.pc < Len(Held.steps)
  /\ state' = Held.steps[mutex.pc + 1]
  /\ mutex' = [mutex EXCEPT !.pc = @ + 1]
  /\ UNCHANGED <<poisoned, notified, now, sweeper, handler, last, run_pc, listener,
                 permits, req, conn, codec, task>>

\* a guard dropped before the call has made all its writes
DbUnlock_early(c) ==
  /\ mutex.owner = Some(c)
  /\ c \in Conns
  /\ mutex' = [mutex EXCEPT !.owner = None,
                            !.notifying = IF Held.notify THEN @ \cup {c} ELSE @]
  /\ UNCHANGED <<engine, handler, permits, last, run_pc, listener, req, conn, codec, task>>

\* the MutexGuard of a handler's call is dropped: at the end of the call,
\* or by the unwinding of a panic, which poisons the mutex
DbUnlock(c) ==
  /\ mutex.owner = Some(c)
  /\ c \in Conns
  /\ mutex.pc = Len(Held.steps)
  /\ mutex' = [mutex EXCEPT !.owner = None,
                            !.notifying = IF Held.notify THEN @ \cup {c} ELSE @]
  /\ IF Held.panic
       THEN poisoned' = TRUE /\ Terminate(c, "panicked")
       ELSE UNCHANGED <<poisoned, handler, permits>>
  /\ UNCHANGED <<state, notified, now, sweeper, last, run_pc, listener, req, conn, codec, task>>

\* a notify_one that only wakes a sweeper already suspended
DbNotify_no_permit(c) ==
  /\ c \in mutex.notifying
  /\ c \in Conns
  /\ notified' = (notified \/ sweeper.pc \in {"sleep", "wait"})
  /\ mutex' = [mutex EXCEPT !.notifying = @ \ {c}]
  /\ UNCHANGED <<state, poisoned, now, sweeper, handler, last, run_pc, listener,
                 permits, req, conn, codec, task>>

\* self.shared.background_task.notify_one(), after the guard is dropped:
\* the Notify keeps a permit for a sweeper that is not waiting yet
DbNotify(c) ==
  /\ c \in mutex.notifying
  /\ c \in Conns
  /\ notified' = TRUE
  /\ mutex' = [mutex EXCEPT !.notifying = @ \ {c}]
  /\ UNCHANGED <<state, poisoned, now, sweeper, handler, last, run_pc, listener,
                 permits, req, conn, codec, task>>

\* shared.is_shutdown(): a lock of its own
SweepCheck ==
  /\ mutex.owner = None
  /\ SweeperCheck

\* purge_expired_keys takes the lock
SweepLock ==
  /\ sweeper.pc = "purge"
  /\ mutex.owner = None
  /\ IF poisoned
       THEN sweeper' = [pc |-> "panicked", when |-> 0] /\ UNCHANGED mutex
       ELSE /\ mutex' = [mutex EXCEPT !.owner = Some(SweeperId), !.op = [name |-> "purge"],
                                      !.pc = 0, !.before = state, !.t = now]
            /\ UNCHANGED sweeper
  /\ UNCHANGED <<state, poisoned, notified, now, handler, last, run_pc, listener,
                 permits, req, conn, codec, task>>

\* purge_expired_keys returns Some(when) or None: the sweeper is on its
\* way to the select or to the bare notified().await
SweepUnlock ==
  /\ mutex.owner = Some(SweeperId)
  /\ mutex.pc = Len(Held.steps)
  /\ mutex' = [mutex EXCEPT !.owner = None]
  /\ sweeper' = IF Held.ret # None
                  THEN [pc |-> "to_sleep", when |-> Unwrap(Held.ret)]
                  ELSE [pc |-> "to_wait", when |-> 0]
  /\ UNCHANGED <<state, poisoned, notified, now, handler, last, run_pc, listener,
                 permits, req, conn, codec, task>>

\* the sweeper is polled in select!{sleep_until(when), notified()} or in
\* notified().await and suspends
SweepSuspend ==
  /\ sweeper.pc \in {"to_sleep", "to_wait"}
  /\ sweeper' = [sweeper EXCEPT !.pc = IF sweeper.pc = "to_sleep" THEN "sleep" ELSE "wait"]
  /\ UNCHANGED <<state, poisoned, notified, now, mutex, handler, last, run_pc, listener,
                 permits, req, conn, codec, task>>

\* a handler between two calls reads the end of its stream
LockEof(c) ==
  /\ mutex.owner # Some(c)
  /\ c \notin mutex.notifying
  /\ EndOfStream(c)

\* a run whose Listener, and with it the DbDropGuard, is dropped before
\* the handlers have ended
DropGuardFlag_without_wait ==
  /\ run_pc = "draining"
  /\ mutex.owner = None
  /\ GuardId \notin mutex.notifying
  /\ ~state.shutdown
  /\ IF poisoned
       THEN run_pc' = "panicked" /\ UNCHANGED <<state, mutex>>
       ELSE /\ state' = [state EXCEPT !.shutdown = TRUE]
            /\ mutex' = [mutex EXCEPT !.notifying = @ \cup {GuardId}]
            /\ UNCHANGED run_pc
  /\ UNCHANGED <<poisoned, notified, now, sweeper, handler, last, listener, permits,
                 req, conn, codec, task>>

\* the end of run: DbDropGuard::drop calls Db::shutdown_purge_task, which
\* sets the flag under the lock (and panics on a poisoned mutex)
DropGuardFlag ==
  /\ run_pc = "draining"
  /\ \A c \in Conns : handler[c] # "running"
  /\ mutex.owner = None
  /\ GuardId \notin mutex.notifying
  /\ IF poisoned
       THEN run_pc' = "panicked" /\ UNCHANGED <<state, mutex>>
       ELSE /\ state' = [state EXCEPT !.shutdown = TRUE]
            /\ mutex' = [mutex EXCEPT !.notifying = @ \cup {GuardId}]
            /\ UNCHANGED run_pc
  /\ UNCHANGED <<poisoned, notified, now, sweeper, handler, last, listener, permits,
                 req, conn, codec, task>>

\* shutdown_purge_task: notify_one after the guard is dropped; run returns
DropGuardNotify ==
  /\ GuardId \in mutex.notifying
  /\ notified' = TRUE
  /\ mutex' = [mutex EXCEPT !.notifying = @ \ {GuardId}]
  /\ run_pc' = "returned"
  /\ UNCHANGED <<state, poisoned, now, sweeper, handler, last, listener, permits,
                 req, conn, codec, task>>

NextLock ==
  \/ \E c \in Conns : \E op \in LockOps(c) : OpInBounds(op) /\ DbLock(c, op)
  \/ DbStep
  \/ \E c \in Conns : DbUnlock(c)
  \/ \E c \in Conns : DbNotify(c)
  \/ SweepCheck
  \/ SweepLock
  \/ SweepUnlock
  \/ SweepSuspend
  \/ SweeperTimeout
  \/ SweeperNotified
  \/ Tick
  \/ ShutdownSignal
  \/ \E c \in Conns : LockEof(c)
  \/ DropGuardFlag
  \/ DropGuardNotify

SpecLock == Init /\ [][NextLock]_vars

\* the runtime keeps polling the sweeper task and the thread in a call
\* goes on; the end of run goes on to its notify_one
FairLock ==
  /\ SpecLock
  /\ WF_vars(SweepCheck)
  /\ WF_vars(SweepLock)
  /\ WF_vars(SweepUnlock)
  /\ WF_vars(SweepSuspend)
  /\ WF_vars(SweeperNotified)
  /\ WF_vars(DbStep)
  /\ WF_vars(DropGuardNotify)

\* ------------------------------------------------------------------------
\* Handlers and sweeper with their suspension points and the mutex: a
\* handler awaits at the select of Handler::run (pc "select") and in
\* write_frame (pc "applied"); between the two, cmd.apply calls the Db,
\* which is synchronous code from its lock to its return
\* ------------------------------------------------------------------------
\* the Db call of the command read last; a set carries a TTL
ApplyOp(c) ==
  IF Current(c).name = "set"
    THEN [name |-> "set", key |-> Current(c).key, value |-> Current(c).value,
          expire |-> Some(1)]
    ELSE Current(c)

\* the reply apply builds when the Db call has returned
ApplyReply ==
  IF mutex.op.name = "set" THEN Simple(OK)
  ELSE IF Held.ret # None THEN Bulk(Unwrap(Held.ret)) ELSE Null

\* apply calls the Db: self.shared.state.lock().unwrap()
ApplyLock(c) ==
  /\ handler[c] = "running"
  /\ task[c].pc = "parsed"
  /\ c \notin mutex.notifying
  /\ mutex.owner = None
  /\ IF poisoned
       THEN /\ Terminate(c, "panicked")
            /\ UNCHANGED mutex
       ELSE /\ mutex' = [mutex EXCEPT !.owner = Some(c), !.op = ApplyOp(c), !.pc = 0,
                                      !.before = state, !.t = now]
            /\ UNCHANGED <<handler, permits>>
  /\ UNCHANGED <<engine, last, run_pc, listener, req, conn, codec, task>>

\* an apply that goes on to write_frame with the guard alive
ApplyUnlock_keeps_guard(c) ==
  /\ mutex.owner = Some(c)
  /\ c \in Conns
  /\ mutex.pc = Len(Held.steps)
  /\ task[c].pc = "parsed"
  /\ task' = [task EXCEPT ![c].pc = "applied", ![c].reply = Some(ApplyReply),
                          ![c].log = Append(@, Current(c))]
  /\ UNCHANGED <<engine, handler, permits, last, run_pc, listener, req, conn, codec, mutex>>

\* the guard is dropped: drop(state) at the end of the Db method, or the
\* unwinding of its panic. A set that has to notify is still inside
\* Db::set; any other call returns to apply, which goes on to write_frame
ApplyUnlock(c) ==
  /\ mutex.owner = Some(c)
  /\ c \in Conns
  /\ mutex.pc = Len(Held.steps)
  /\ task[c].pc = "parsed"
  /\ IF Held.panic
       THEN /\ poisoned' = TRUE
            /\ Terminate(c, "panicked")
            /\ mutex' = [mutex EXCEPT !.owner = None]
            /\ UNCHANGED task
       ELSE /\ UNCHANGED <<poisoned, handler, permits>>
            /\ IF Held.notify
                 THEN /\ mutex' = [mutex EXCEPT !.owner = None, !.notifying = @ \cup {c}]
                      /\ UNCHANGED task
                 ELSE /\ mutex' = [mutex EXCEPT !.owner = None]
                      /\ task' = [task EXCEPT ![c].pc = "applied",
                                              ![c].reply = Some(ApplyReply),
                                              ![c].log = Append(@, Current(c))]
  /\ UNCHANGED <<state, notified, now, sweeper, last, run_pc, listener, req, conn, codec>>

\* background_task.notify_one() and the return of Db::set to apply
ApplyNotify(c) ==
  /\ c \in mutex.notifying
  /\ c \in Conns
  /\ notified' = TRUE
  /\ mutex' = [mutex EXCEPT !.notifying = @ \ {c}]
  /\ task' = [task EXCEPT ![c].pc = "applied", ![c].reply = Some(Simple(OK)),
                          ![c].log = Append(@, Current(c))]
  /\ UNCHANGED <<state, poisoned, now, sweeper, handler, last, run_pc, listener,
                 permits, req, conn, codec>>

NextHold ==
  \/ \E c \in Conns : RunRead(c)
  \/ \E c \in Conns : ApplyLock(c)
  \/ DbStep
  \/ \E c \in Conns : ApplyUnlock(c)
  \/ \E c \in Conns : ApplyNotify(c)
  \/ \E c \in Conns, wok \in BOOLEAN : RunWrite(c, wok)
  \/ \E c \in Conns : RunEof(c)
  \/ SweepCheck
  \/ SweepLock
  \/ SweepUnlock
  \/ SweepSuspend
  \/ SweeperTimeout
  \/ SweeperNotified
  \/ Tick

SpecHold == Init /\ [][NextHold]_vars

\* ------------------------------------------------------------------------
\* The codec on its own: a frame written by write_frame (or an Error
\* message written by a peer that follows the grammar), a prefix of the
\* bytes delivered, Frame::check on it and, as in parse_frame, Frame::parse
\* from position 0 when check returns Ok
\* ------------------------------------------------------------------------
Texts == {<<>>, <<"a">>}
Scalars ==
  {Simple(t) : t \in Texts} \cup {Error(t) : t \in Texts}
    \cup {USize(n) : n \in {0, 10}} \cup {Integer(v) : v \in {-1, 2}}
    \cup {Bulk(b) : b \in Texts \cup {CRLF}} \cup {Null}
ArrayElems == {Bulk(<<"a">>), Simple(<<>>), Null, USize(10), Error(<<"a">>)}
SeqsUpTo(S, n) == UNION {[1..k -> S] : k \in 0..n}
CodecFrames == Scalars \cup {Array(elems) : elems \in SeqsUpTo(ArrayElems, MaxArrayLen)}

NoCheck == [res |-> "none", pos |-> 0]
NoParse == Failed("none", 0)
rest == <<engine, listener, handler, last, run_pc, permits, task, mutex>>

InitCodec ==
  /\ InitCommon
  /\ handler = [c \in Conns |-> "none"]
  /\ permits = ConnLimit
  /\ req = NoFrame
  /\ conn = Idle
  /\ task = TaskInit
  /\ mutex = MutexInit
  /\ \E frame \in CodecFrames :
       \E build \in Builds :
         codec = [stage |-> "new", frame |-> frame, by |-> "none", wire |-> <<>>,
                  cut |-> 0, checked |-> NoCheck, parsed |-> NoParse, build |-> build]

\* Connection::write_frame(&frame)
CodecWrite ==
  /\ codec.stage = "new"
  /\ LET w == write_frame(codec.frame)
     IN codec' = [codec EXCEPT !.stage = IF w.panic THEN "panicked" ELSE "written",
                               !.by = "write_frame",
                               !.wire = w.bytes,
                               !.cut = Len(w.bytes)]
  /\ UNCHANGED <<rest, req, conn>>

\* a peer writes an Error message as Frame::parse reads it: `-`, text, CRLF
CodecPeerWrite ==
  /\ codec.stage = "new"
  /\ codec.frame.type = "Error"
  /\ LET bytes == <<"-">> \o codec.frame.text \o CRLF
     IN codec' = [codec EXCEPT !.stage = "written", !.by = "peer",
                               !.wire = bytes, !.cut = Len(bytes)]
  /\ UNCHANGED <<rest, req, conn>>

\* the first n bytes have arrived in the reader's buffer
CodecDeliver ==
  /\ codec.stage = "written"
  /\ \E n \in 0..Len(codec.wire) :
       codec' = [codec EXCEPT !.stage = "received", !.cut = n]
  /\ UNCHANGED <<rest, req, conn>>

\* Frame::check(&mut buf) on the buffer
CodecCheck ==
  /\ codec.stage = "received"
  /\ codec' = [codec EXCEPT !.stage = "checked",
                            !.checked = check(SubSeq(codec.wire, 1, codec.cut), 0, codec.build)]
  /\ UNCHANGED <<rest, req, conn>>

\* buf.set_position(0); Frame::parse(&mut buf)
CodecParse ==
  /\ codec.stage = "checked"
  /\ codec.checked.res = "ok"
  /\ codec' = [codec EXCEPT !.stage = "parsed",
                            !.parsed = parse(SubSeq(codec.wire, 1, codec.cut), 0, codec.build)]
  /\ UNCHANGED <<rest, req, conn>>

NextCodec ==
  \/ CodecWrite
  \/ CodecPeerWrite
  \/ CodecDeliver
  \/ CodecCheck
  \/ CodecParse

SpecCodec == InitCodec /\ [][NextCodec]_vars

\* ------------------------------------------------------------------------
\* A Connection on its own: the peer sends messages of the grammar and may
\* close in the middle of one; the handler calls read_frame again and again
\* ------------------------------------------------------------------------
PeerMessages == {Simple(<<"a">>), Null, Array(<<Bulk(<<"a">>)>>)}

RECURSIVE Concat(_)
Concat(seqs) == IF seqs = <<>> THEN <<>> ELSE Head(seqs) \o Concat(Tail(seqs))

\* the bytes of the messages, as write_frame writes them
WireOf(frames) == Concat([i \in 1..Len(frames) |-> write_frame(frames[i]).bytes])

InitConn ==
  /\ InitCommon
  /\ handler = [c \in Conns |-> "none"]
  /\ permits = ConnLimit
  /\ req = NoFrame
  /\ codec = Idle
  /\ task = TaskInit
  /\ mutex = MutexInit
  /\ \E sent \in SeqsUpTo(PeerMessages, MaxMessages) :
       \E n \in 0..Len(WireOf(sent)), build \in Builds :
         conn = [pc |-> "parse", sent |-> sent, stream |-> SubSeq(WireOf(sent), 1, n),
                 buffer |-> <<>>, returned |-> <<>>, result |-> "none", build |-> build]

\* read_frame is called (again)
ConnReadFrame ==
  /\ conn.pc = "returned"
  /\ conn' = [conn EXCEPT !.pc = "parse"]
  /\ UNCHANGED <<rest, req, codec>>

\* self.parse_frame()? at the head of the loop
ConnParseFrame ==
  /\ conn.pc = "parse"
  /\ LET r == parse_frame(conn.buffer, conn.build)
     IN conn' =
          CASE r.res = "frame" ->
                 [conn EXCEPT !.pc = "returned", !.buffer = r.buffer,
                              !.returned = Append(@, r.frame), !.result = "frame"]
            [] r.res = "none" -> [conn EXCEPT !.pc = "read"]
            [] OTHER -> [conn EXCEPT !.pc = "done", !.result = r.res]
  /\ UNCHANGED <<rest, req, codec>>

\* stream.read_buf(&mut self.buffer): some bytes arrive, or 0 once the peer
\* has closed and nothing is left
ConnReadBuf ==
  /\ conn.pc = "read"
  /\ IF conn.stream = <<>>
       THEN conn' = [conn EXCEPT !.pc = "done",
                                 !.result = IF conn.buffer = <<>> THEN "eof" ELSE "reset"]
       ELSE \E n \in 1..MaxChunk :
              /\ n <= Len(conn.stream)
              /\ conn' = [conn EXCEPT !.pc = "parse",
                                      !.buffer = @ \o SubSeq(conn.stream, 1, n),
                                      !.stream = SubSeq(@, n + 1, Len(@))]
  /\ UNCHANGED <<rest, req, codec>>

NextConn ==
  \/ ConnReadFrame
  \/ ConnParseFrame
  \/ ConnReadBuf

SpecConn == InitConn /\ [][NextConn]_vars

\* ------------------------------------------------------------------------
\* A Connection whose peer sends any bytes: messages of the grammar with
\* more bytes behind them, and bytes that are no message (a Null marker
\* that is not -1, text that is not UTF-8, a bulk without its CRLF, an
\* unknown type byte, bulk lengths at the top of the usize range); some
\* are buffered already, the others arrive in chunks
\* ------------------------------------------------------------------------
\* messages, with the bytes the grammar gives them
GrammarFrames ==
  {Simple(<<"a">>), Error(<<"a">>), USize(10), Bulk(<<"a">>), Bulk(<<>>), Null,
   Array(<<>>), Array(<<Bulk(<<"a">>)>>), Array(<<Simple(<<>>), Null>>)}
GrammarWire(frame) ==
  IF frame.type = "Error" THEN <<"-">> \o frame.text \o CRLF
  ELSE write_frame(frame).bytes

\* the declared bulk lengths near the top of the range
TopLengths == {USizeMax - 2, USizeMax - 1, USizeMax}

OddHeads ==
  {<<"$", "-", "2", CR, LF>>,
   <<"$", "-", "1", CR, "x">>,
   <<"+", Byte80, CR, LF>>,
   <<"$", "1", CR, LF, "a", "x", "y">>,
   <<"?", CR, LF>>,
   <<":", "a", CR, LF>>}
    \cup {<<"$">> \o NatToString(n) \o CRLF \o <<"a">> : n \in TopLengths}
BufTails == {<<>>, <<"+">>, <<"+", "a", CR, LF>>, <<"$", "-">>}

\* what the peer sends in all
PeerBytes ==
  {h \o t : h \in {GrammarWire(f) : f \in GrammarFrames} \cup OddHeads, t \in BufTails}

InitBuf ==
  /\ InitCommon
  /\ handler = [c \in Conns |-> "none"]
  /\ permits = ConnLimit
  /\ req = NoFrame
  /\ codec = Idle
  /\ task = TaskInit
  /\ mutex = MutexInit
  /\ \E bytes \in PeerBytes, build \in Builds :
       \E n \in 0..Len(bytes) :
         conn = [pc |-> "parse", sent |-> <<>>, stream |-> SubSeq(bytes, n + 1, Len(bytes)),
                 buffer |-> SubSeq(bytes, 1, n), returned |-> <<>>, result |-> "none",
                 build |-> build]

SpecBuf == InitBuf /\ [][NextConn]_vars

\* ------------------------------------------------------------------------
\* Properties
\* ------------------------------------------------------------------------
PairsOf(st, key) == {p \in st.expirations : p[2] = key}
\* the deadline of key has passed at instant t
Due(st, key, t) ==
  /\ key \in DOMAIN st.entries
  /\ \E w \in st.entries[key].expires_at : w <= t

\* the step is a handler taking the request that last' records, with the
\* mutex not poisoned
GetStep ==
  /\ last'.op = "get" /\ ~poisoned
  /\ \E c \in Conns, wok \in BOOLEAN : Get_apply(c, last'.key, wok)
SetStep ==
  /\ last'.op = "set" /\ ~poisoned
  /\ \E c \in Conns, wok \in BOOLEAN :
       Set_apply(c, last'.key, last'.arg.value, last'.arg.expire, wok)
IncrbyStep ==
  /\ last'.op = "incrby" /\ ~poisoned
  /\ \E c \in Conns, wok \in BOOLEAN :
       Incrby_apply(c, last'.key, last'.arg.delta, wok)
PushStep ==
  /\ last'.op = "push" /\ ~poisoned
  /\ \E c \in Conns, wok \in BOOLEAN :
       Push_apply(c, last'.key, last'.arg.values, last'.arg.right, wok)

\* C1: a set(k, v) that returns, over whatever k held before, is followed by
\* a get(k) that returns exactly v
C1_SetThenGet ==
  [][SetStep =>
       /\ ~poisoned'
       /\ Db_get(state', last'.key) = [panic |-> FALSE, ret |-> Some(last'.arg.value)]]_vars

C1_Witness ==
  /\ last.op = "set" /\ last.outcome = "ok"
  /\ last.before \in {"string_ttl", "list"}
  /\ last.key \in DOMAIN state.entries
  /\ Db_get(state, last.key).ret \in {Some(v) : v \in SetValues}

\* C2: GET of a key that is absent from entries (never written), or that
\* holds a non-string value, replies Null, and the handler task keeps running
C2_GetAbsentRepliesNull ==
  [][GetStep /\ Kind(state, last'.key) \in {"absent", "list"} =>
       /\ last'.reply = Some(Null)
       /\ handler' = handler
       /\ ~poisoned']_vars

\* C4: (t, k) is in expirations exactly when entries holds k with
\* expires_at = t; at most one pair per key, none for a missing key
C4_ExpirationsMatchEntries ==
  /\ \A p \in state.expirations :
       /\ p[2] \in DOMAIN state.entries
       /\ state.entries[p[2]].expires_at = Some(p[1])
  /\ \A k \in DOMAIN state.entries :
       \A w \in state.entries[k].expires_at : <<w, k>> \in state.expirations
  /\ \A p, q \in state.expirations : p[2] = q[2] => p = q

C4_Witness ==
  /\ Cardinality(state.expirations) = 1
  /\ Cardinality(DOMAIN state.entries) = 2
  /\ sweeper.pc = "sleep"
  /\ last.op \in {"incrby", "push"} /\ last.outcome = "ok"
  /\ now > 0

\* C5: a set that returns replaces the entry whatever it was, and leaves in
\* expirations exactly the pair of the new deadline (none without TTL);
\* an entry disappears only in a purge pass that finds its current deadline
\* passed
C5_SetReplacesEntryAndDeadline ==
  [][/\ SetStep =>
          /\ state'.entries[last'.key] =
               Entry(String(last'.arg.value), {now + d : d \in last'.arg.expire})
          /\ PairsOf(state', last'.key) = {<<now + d, last'.key>> : d \in last'.arg.expire}
     /\ \A key \in KeySet :
          key \in DOMAIN state.entries /\ key \notin DOMAIN state'.entries =>
            sweeper.pc = "purge" /\ Due(state, key, now)]_vars

C5_Witness ==
  /\ last.op = "set" /\ last.outcome = "ok"
  /\ last.before = "string_ttl"
  /\ last.key \in DOMAIN state.entries
  /\ state.entries[last.key].expires_at = None
  /\ PairsOf(state, last.key) = {}
  /\ now = MaxTime
  /\ sweeper.pc = "wait"

\* the stored text of key parses as an i64
Numeric(st, key) ==
  /\ Kind(st, key) \in {"string", "string_ttl"}
  /\ bytes_to_i64(st.entries[key].data.bytes).ok

\* C3: after set(k, v, ttl) with no later write, a get(k) returns v while the
\* entry is there and absent (Null) once the sweeper removed it; and once
\* the deadline has passed and the engine is not shut down, the sweeper
\* eventually removes k from entries and expirations
C3_TtlExpiry ==
  /\ [][/\ last.op = "set" /\ last.outcome = "ok" /\ last.arg.expire # None
        /\ GetStep /\ last'.key = last.key
        => /\ handler' = handler
           /\ last'.reply =
                Some(IF last.key \in DOMAIN state.entries
                       THEN Bulk(last.arg.value) ELSE Null)]_vars
  /\ \A key \in KeySet :
       (Due(state, key, now) /\ ~state.shutdown)
         ~> /\ ~Due(state, key, now)
            /\ key \notin DOMAIN state.entries => PairsOf(state, key) = {}

\* C6: INCRBY d on a key holding the decimal text of n, with n + d an i64,
\* leaves the decimal text of n + d for the next get, replies Simple("OK")
\* and leaves the handler running
C6_IncrbyAddsOnce ==
  [][/\ IncrbyStep /\ Numeric(state, last'.key)
     /\ bytes_to_i64(state.entries[last'.key].data.bytes).val + last'.arg.delta
          \in I64Min..I64Max
     => /\ Db_get(state', last'.key) =
             [panic |-> FALSE,
              ret |-> Some(i64_to_string(
                        bytes_to_i64(state.entries[last'.key].data.bytes).val
                          + last'.arg.delta))]
        /\ last'.reply = Some(Simple(OK))
        /\ handler' = handler
        /\ ~poisoned']_vars

\* C7: INCRBY on a key that is absent, holds a non-numeric string or holds a
\* non-string value does not panic, replies an Error frame, leaves the
\* stored data unchanged and leaves the handler running
C7_IncrbyErrorReply ==
  [][IncrbyStep /\ ~Numeric(state, last'.key) =>
       /\ last'.outcome # "panic"
       /\ ~poisoned'
       /\ \E r \in last'.reply : r.type = "Error"
       /\ state' = state
       /\ handler' = handler]_vars

\* C8: no command leaves the engine in a state where later operations fail:
\* the sweeper never fails taking the lock, and neither does a set or a
\* push, which have no failure of their own
C8_FailClosed ==
  /\ sweeper.pc # "panicked"
  /\ ~(last.op \in {"set", "push"} /\ last.outcome = "panic")

ListenerActive(pc) == pc \in {"acquire", "accept", "sleep"}

\* C9: a handler that ends with a transport error leaves every other
\* handler, the accept loop and connect::run as they were; the accept loop
\* ends only by the external shutdown signal or, in accept, with the backoff
\* beyond its limit
C9_TransportErrorIsLocal ==
  [][/\ \A c \in Conns :
          handler[c] = "running" /\ handler'[c] = "failed" =>
            /\ \A d \in Conns \ {c} : handler'[d] = handler[d]
            /\ run_pc' = run_pc
            /\ listener_pc' = listener_pc
            /\ backoff' = backoff
            /\ poisoned' = poisoned
     /\ ListenerActive(listener_pc) /\ ~ListenerActive(listener_pc') =>
          \/ listener_pc' = "cancelled"
          \/ /\ listener_pc' = "failed"
             /\ listener_pc = "accept"
             /\ backoff > ACCEPT_BACKOFF_LIMIT]_vars

\* a third connection is accepted and served after the first one failed
C9_Witness ==
  /\ handler[1] = "failed"
  /\ handler[2] = "running"
  /\ handler[3] = "running"
  /\ run_pc = "serving"
  /\ ListenerActive(listener_pc)
  /\ last.outcome = "ok"

\* the list under key; no elements when there is none
ListAt(st, key) ==
  IF key \in DOMAIN st.entries /\ st.entries[key].data.type = "List"
    THEN st.entries[key].data.list
    ELSE <<>>

RECURSIVE PushOneByOne(_, _, _, _)
\* push(key, [v1]), then push(key, [v2]), ...
PushOneByOne(st, key, values, right) ==
  IF values = <<>> THEN st
  ELSE PushOneByOne(Db_push(st, key, <<Head(values)>>, right).state,
                    key, Tail(values), right)

\* C10: a push of [v1..vn] on an absent key or on a List leaves the list
\* that pushing v1, ..., vn one at a time leaves: the values appended in
\* order on the right, vn at the front on the left
C10_PushIsElementwise ==
  [][PushStep /\ Kind(state, last'.key) \in {"absent", "list"} =>
       LET key == last'.key
           values == last'.arg.values
           right == last'.arg.right
           single == PushOneByOne(state, key, values, right)
       IN /\ ListAt(state', key) = ListAt(single, key)
          /\ values # <<>> => state' = single
          /\ ListAt(state', key) =
               IF right THEN ListAt(state, key) \o values
               ELSE Reverse(values) \o ListAt(state, key)]_vars

C10_Witness ==
  /\ last.op = "push" /\ last.outcome = "ok"
  /\ last.before = "list"
  /\ last.arg = [values |-> <<<<"a">>, <<"b">>>>, right |-> FALSE]
  /\ ListAt(state, last.key) = <<<<"b">>, <<"a">>, <<"a">>>>

\* a push of two values to the left of an absent key
C10_WitnessAbsent ==
  /\ last.op = "push" /\ last.outcome = "ok"
  /\ last.before = "absent"
  /\ last.arg = [values |-> <<<<"a">>, <<"b">>>>, right |-> FALSE]
  /\ ListAt(state, last.key) = <<<<"b">>, <<"a">>>>

\* the whole of the written bytes was delivered
Whole == codec.cut = Len(codec.wire)

\* C11: the bytes write_frame produces for a frame are accepted by check,
\* which stops at their end, and parse gives back an equal frame, stopping
\* at their end too
C11_CodecRoundTrip ==
  /\ codec.stage # "panicked"
  /\ codec.stage = "checked" /\ codec.by = "write_frame" /\ Whole =>
       codec.checked = [res |-> "ok", pos |-> Len(codec.wire)]
  /\ codec.stage = "parsed" /\ codec.by = "write_frame" /\ Whole =>
       codec.parsed = [res |-> "ok", pos |-> Len(codec.wire), frame |-> codec.frame]

\* the frame is of a kind the decoder knows and write_frame tags as the
\* grammar does
RECURSIVE Conforming(_)
Conforming(frame) ==
  CASE frame.type \in {"Simple", "USize", "Bulk", "Null"} -> TRUE
    [] frame.type = "Array" ->
         \A i \in 1..Len(frame.elems) :
           frame.elems[i].type # "Array" /\ Conforming(frame.elems[i])
    [] OTHER -> FALSE

\* the written bytes are one valid message
ValidMessage == codec.by = "peer" \/ Conforming(codec.frame)

\* C12: check on a proper prefix of a valid message returns Incomplete
C12_PrefixIsIncomplete ==
  codec.stage \in {"checked", "parsed"} /\ ValidMessage /\ ~Whole =>
    codec.checked.res = "incomplete"

\* an array whose last element, a Null, is cut between its CR and LF
C12_Witness ==
  /\ codec.stage = "checked"
  /\ codec.checked.res = "incomplete"
  /\ codec.cut = Len(codec.wire) - 1
  /\ codec.frame = Array(<<Bulk(<<"a">>), Null>>)

TypeBytes == {"+", "-", ":", "$", "*"}

\* C13: every element write_frame emits starts with a type byte of the
\* grammar, and an Error is `-`, its text, CRLF
C13_WriterFollowsGrammar ==
  codec.stage = "written" /\ codec.by = "write_frame" =>
    LET frame == codec.frame
    IN /\ codec.wire[1] \in TypeBytes
       /\ frame.type = "Error" => codec.wire = <<"-">> \o frame.text \o CRLF
       /\ frame.type = "Array" =>
            \A i \in 1..Len(frame.elems) :
              LET e == write_value(frame.elems[i])
              IN /\ e.bytes[1] \in TypeBytes
                 /\ frame.elems[i].type = "Error" =>
                      e.bytes = <<"-">> \o frame.elems[i].text \o CRLF

\* the bytes the peer sent in all: read, buffered or still to come
Arrived ==
  WireOf(conn.returned) \o conn.buffer \o conn.stream

\* the messages among conn.sent that the peer sent in full
RECURSIVE SentInFull(_, _)
SentInFull(frames, n) ==
  IF frames = <<>> \/ Len(write_frame(Head(frames)).bytes) > n THEN <<>>
  ELSE <<Head(frames)>>
         \o SentInFull(Tail(frames), n - Len(write_frame(Head(frames)).bytes))

\* C14: read_frame returns the complete messages once each and in order;
\* it returns None exactly when the stream ends with the buffer empty, and
\* the reset error when it ends with a partial message buffered
C14_ReadFrame ==
  LET full == SentInFull(conn.sent, Len(Arrived))
  IN /\ Len(conn.returned) <= Len(full)
     /\ conn.returned = SubSeq(full, 1, Len(conn.returned))
     /\ conn.result \in {"none", "frame", "eof", "reset"}
     /\ conn.pc = "done" =>
          /\ conn.stream = <<>>
          /\ conn.returned = full
          /\ conn.result = "eof" <=> conn.buffer = <<>>
          /\ conn.result = "reset" <=> conn.buffer # <<>>

\* one message was returned, the second was cut short by the end of stream
C14_Witness ==
  /\ conn.pc = "done"
  /\ conn.result = "reset"
  /\ conn.returned = <<Array(<<Bulk(<<"a">>)>>)>>
  /\ Len(conn.sent) = 2

\* two messages were returned, then the stream ended with the buffer empty
C14_WitnessEof ==
  /\ conn.pc = "done"
  /\ conn.result = "eof"
  /\ Len(conn.returned) = 2

\* ------------------------------------------------------------------------
\* Requests
\* ------------------------------------------------------------------------
\* the step is one iteration of Handler::run over the frame in req'
HandlerStep ==
  /\ req'.frame # None
  /\ \E c \in Conns, wok \in BOOLEAN : Handler_run(c, Unwrap(req'.frame), wok)

KnownNames == {GET, POP, SET, PING, INCRBY, LRANGE, PUSH, SADD, SREM, SCARD,
               SISMEMBER, SISMEMBERS, SINTER, SDIFF, SUNION}

\* the text of the first element of a request
NameText(frame) ==
  IF Head(frame.elems).type = "Simple" THEN Head(frame.elems).text
  ELSE Head(frame.elems).bytes

\* an array whose first element is text that names no known command
UnknownName(frame) ==
  /\ frame.type = "Array"
  /\ frame.elems # <<>>
  /\ Head(frame.elems).type \in {"Simple", "Bulk"}
  /\ \A i \in 1..Len(NameText(frame)) : NameText(frame)[i] # Byte80
  /\ to_lowercase(NameText(frame)) \notin KnownNames

Fields(cmd) ==
  CASE cmd.name \in {"get", "scard", "sismembers"} -> 1
    [] cmd.name \in {"pop", "incrby", "sismember"} -> 2
    [] cmd.name = "set" -> IF cmd.expire = None THEN 2 ELSE 3
    [] cmd.name = "ping" -> IF cmd.msg = None THEN 0 ELSE 1
    [] cmd.name = "lrange" -> 3
    [] cmd.name \in {"push", "sadd", "srem"} -> 2 + Len(cmd.values)
    [] cmd.name \in {"sinter", "sdiff", "sunion"} -> 1 + Len(cmd.values)

\* C16: a known command is accepted only from a request with exactly the
\* fields it consumes, a request with one field more than a command can
\* take is rejected, and a rejected request leaves the engine as it was
C16_FinishCheck ==
  [][HandlerStep =>
       LET frame == Unwrap(req'.frame)
           r == Unwrap(req'.result)
       IN /\ r.res = "ok" /\ r.cmd.name # "unknown" =>
               Len(frame.elems) = 1 + Fields(r.cmd)
          /\ frame \in TooManyFields => r.res = "err"
          /\ r.res = "err" =>
               state' = state /\ notified' = notified /\ poisoned' = poisoned]_vars

\* GET k1 x was rejected while k1 is stored
C16_Witness ==
  /\ req.frame = Some(WithExtra(Request(<<GET, K1>>)))
  /\ Unwrap(req.result).res = "err"
  /\ last.op = "rejected"
  /\ Keys[1] \in DOMAIN state.entries

\* C17: a complete request rejected for its arity, a field type or
\* non-UTF-8 text is answered with an Error reply
C17_RejectedGetsErrorReply ==
  [][(/\ HandlerStep
      /\ Unwrap(req'.frame) \in TooManyFields \cup TooFewFields \cup WrongFieldType \cup NotUtf8
      /\ Unwrap(req'.result).res = "err")
     => (/\ last'.reply # None
         /\ Unwrap(last'.reply).type = "Error")]_vars

\* ------------------------------------------------------------------------
\* Admission
\* ------------------------------------------------------------------------
Running == {c \in Conns : handler[c] = "running"}

\* the permit the accept loop holds between acquire_owned and the spawn
ListenerHolds == IF listener_pc \in {"accept", "sleep"} THEN 1 ELSE 0

\* C18: the live handler tasks never outnumber the connection limit, and
\* the accept loop is in accept only with a permit taken for it
C18_ConnectionLimit ==
  /\ Cardinality(Running) <= ConnLimit
  /\ Cardinality(Running) + ListenerHolds <= ConnLimit

\* the limit is reached: the accept loop waits for a permit while one more
\* connection waits to be accepted
C18_Witness ==
  /\ Cardinality(Running) = ConnLimit
  /\ handler[MaxConns] = "none"
  /\ permits = 0
  /\ listener_pc = "acquire"
  /\ run_pc = "serving"

\* connection c is the next one accept() returns
Waiting(c) ==
  /\ handler[c] = "none"
  /\ \A d \in Conns : d < c => handler[d] # "none"

\* C19: a connection that waits is never ended by the server before it is
\* served, and once fewer handlers than the limit are live the waiting
\* connection is eventually accepted
C19_ExcessConnectionsWait ==
  /\ [][\A c \in Conns : handler[c] = "none" => handler'[c] \in {"none", "running"}]_vars
  /\ \A c \in Conns :
       (Waiting(c) /\ Cardinality(Running) < ConnLimit) ~> (handler[c] = "running")

\* the last connection waited at the limit and is served now that the
\* first one has ended
C19_Witness ==
  /\ handler[1] \in {"closed", "failed", "panicked"}
  /\ \A c \in Conns \ {1} : handler[c] = "running"
  /\ permits = 0
  /\ listener_pc = "acquire"

\* C20: the free permits, the permits of the live handlers and the permit
\* of the accept loop always add up to the limit
C20_PermitAccounting ==
  /\ permits \in 0..ConnLimit
  /\ permits + Cardinality(Running) + ListenerHolds = ConnLimit

\* three tasks ended, by a panic in a command, by an error and by the end
\* of the stream, the last error being a rejected request; every permit is
\* free again
C20_Witness ==
  /\ \E c \in Conns : handler[c] = "panicked"
  /\ \E c \in Conns : handler[c] = "failed"
  /\ \E c \in Conns : handler[c] = "closed"
  /\ last.op = "rejected"
  /\ run_pc = "serving"
  /\ permits = ConnLimit

\* ------------------------------------------------------------------------
\* Shutdown and the order of commands on a connection
\* ------------------------------------------------------------------------
\* C21: once the shutdown signal is out, no handler takes a further
\* message from its connection
C21_NoCommandAfterShutdown ==
  [][run_pc # "serving" =>
       \A c \in Conns : ~(task[c].pc = "select" /\ task'[c].pc = "parsed")]_vars

\* C22: a handler holding a parsed command does not leave by shutdown or
\* end of stream: its next step is the engine call of that command, the
\* one after it the write of its reply, and a handler closes only at the
\* select with a reply written for every message it read
C22_NoCancellation ==
  [][\A c \in Conns :
       /\ handler[c] = "running" /\ task[c].pc \in {"parsed", "applied"} =>
            handler'[c] \in {"running", "panicked", "failed"}
       /\ task[c].pc = "parsed" /\ task'[c] # task[c] =>
            /\ task'[c].pc = "applied"
            /\ task'[c].log = Append(task[c].log, Current(c))
            /\ task'[c].reply # None
            /\ Current(c).name = "set" =>
                 /\ Current(c).key \in DOMAIN state'.entries
                 /\ state'.entries[Current(c).key].data = String(Current(c).value)
       /\ task[c].pc = "applied" /\ task'[c] # task[c] =>
            /\ task'[c].pc = "select"
            /\ task'[c].out = Append(task[c].out, Unwrap(task[c].reply))
       /\ handler[c] = "running" /\ handler'[c] = "closed" =>
            /\ task[c].pc = "select"
            /\ Len(task[c].out) = task[c].read]_vars

\* during the drain the first connection has closed with its one command
\* answered, while another one still has a reply to write
C22_Witness ==
  /\ run_pc = "draining"
  /\ handler[1] = "closed"
  /\ task[1].read = 1
  /\ task[1].out = <<Simple(OK)>>
  /\ handler[2] = "running"
  /\ task[2].pc = "applied"

\* C23: run is over only when no handler task is left
C23_RunWaitsForHandlers ==
  run_pc \in {"returned", "panicked"} =>
    \A c \in Conns : handler[c] # "running"

\* run has returned after a handler was closed by the shutdown with one
\* command answered and another one ended on a failed write
C23_Witness ==
  /\ run_pc = "returned"
  /\ \E c \in Conns : handler[c] = "closed" /\ Len(task[c].out) = 1
  /\ \E c \in Conns : handler[c] = "failed" /\ task[c].pc = "applied"

\* C24: once run drains, every handler ends and run returns
C24_DrainCompletes ==
  /\ [](run_pc # "panicked")
  /\ (run_pc = "draining") ~> (run_pc = "returned")
  /\ \A c \in Conns : (run_pc = "draining" /\ handler[c] = "running") ~> (handler[c] # "running")

\* C25: on each connection the commands applied are the messages sent, in
\* their order; a message is read only when every earlier one has its
\* reply written, and the replies are those of the commands, one each
C25_PerConnectionOrder ==
  \A c \in Conns :
    /\ task[c].log = SubSeq(Script(c), 1, Len(task[c].log))
    /\ Len(task[c].out) <= Len(task[c].log)
    /\ Len(task[c].log) <= task[c].read
    /\ task[c].read <= Len(task[c].out) + 1
    /\ handler[c] = "running" /\ task[c].pc = "select" =>
         Len(task[c].out) = task[c].read
    /\ \A i \in 1..Len(task[c].out) :
         IF Script(c)[i].name = "set"
           THEN task[c].out[i] = Simple(OK)
           ELSE task[c].out[i].type \in {"Bulk", "Null"}

\* the first connection has its SET and then its GET answered
C25_Witness ==
  /\ task[1].out = <<Simple(OK), Bulk(<<"x">>)>>
  /\ task[1].log = <<SetCmd, GetCmd>>
  /\ handler[1] = "running"


\* ------------------------------------------------------------------------
\* The engine under concurrent calls and the sweeper
\* ------------------------------------------------------------------------
\* expirations holds exactly the pairs of the entries that expire
Consistent(st) ==
  st.expirations =
    {<<Unwrap(st.entries[k].expires_at), k>> :
       k \in {x \in DOMAIN st.entries : st.entries[x].expires_at # None}}

\* the states an operation leaves when it runs alone on st at time t
Sequential(op, st, t) ==
  CASE op.name = "set" -> {Db_set(st, op.key, op.value, op.expire, t).state}
    [] op.name = "push" -> {Db_push(st, op.key, op.values, op.right).state}
    [] op.name = "incrby" -> {r.state : r \in Db_incrby(st, op.key, op.delta)}
    [] op.name = "get" -> {st}
    [] op.name = "purge" -> {purge_expired_keys(st, t).state}

\* C26: every engine operation takes effect atomically. A call starts from
\* a state in which no other call is under way and every entry has its
\* expiration (what a get at that point reads), only the call holding the
\* mutex writes until it returns, and at its return the state is the one
\* the whole operation yields on the state it started from: the history
\* is the sequence of the operations in the order of their locks.
C26_Linearizable ==
  [][/\ (mutex.owner = None /\ mutex'.owner # None) =>
          (/\ Consistent(state)
           /\ mutex'.before = state
           /\ state' = state)
     /\ (mutex.owner # None /\ mutex'.owner # None) =>
          (/\ mutex'.owner = mutex.owner
           /\ mutex'.before = mutex.before)
     /\ (mutex.owner # None /\ mutex'.owner = None) =>
          (/\ state' = state
           /\ state \in Sequential(mutex.op, mutex.before, mutex.t)
           /\ (~poisoned' => Consistent(state)))
    ]_vars

\* a get returns while the other connection's set with a TTL and a purge
\* pass have both completed, and a push has written its two values
C26_Witness ==
  /\ mutex.owner = None
  /\ ~poisoned
  /\ Keys[1] \in DOMAIN state.entries
  /\ state.entries[Keys[1]].expires_at # None
  /\ Keys[2] \in DOMAIN state.entries
  /\ state.entries[Keys[2]].data.type = "List"
  /\ mutex.op.name = "get"
  /\ sweeper.pc = "sleep"


\* a handler's set returns
SetReturns ==
  /\ mutex.owner # None
  /\ mutex'.owner = None
  /\ mutex.op.name = "set"

\* the deadline of the set that holds or last held the mutex
Deadline == mutex.t + Unwrap(mutex.op.expire)

\* C27: a set wakes the sweeper exactly when it has a TTL and its deadline
\* is strictly earlier than every deadline scheduled before the call (or
\* none was scheduled); the wake-up is then sent, and nothing else but the
\* end of the engine sends one.
C27_SetWakesSweeper ==
  [][/\ SetReturns =>
          ((Unwrap(mutex.owner) \in mutex'.notifying)
             <=> (/\ mutex.op.expire # None
                  /\ \A p \in mutex.before.expirations : Deadline < p[1]))
     /\ \A c \in Conns :
          (c \in mutex.notifying /\ c \notin mutex'.notifying) => notified'
     /\ (~notified /\ notified') =>
          (mutex.notifying # {} /\ mutex'.notifying # mutex.notifying)
    ]_vars

\* a set with a TTL has returned without a wake-up, its deadline being
\* no earlier than one already scheduled
C27_Witness ==
  /\ mutex.owner = None
  /\ mutex.op.name = "set"
  /\ mutex.op.expire # None
  /\ mutex.before.expirations # {}
  /\ \E p \in mutex.before.expirations : p[1] = Deadline
  /\ mutex.notifying = {}
  /\ ~notified
  /\ sweeper.pc = "sleep"
  /\ handler[1] = "running"


\* the sweeper's purge pass returns
PurgeReturns ==
  /\ mutex.owner = Some(SweeperId)
  /\ mutex'.owner = None

\* the keys of st whose deadline has been reached at t
DueKeys(st, t) ==
  {k \in DOMAIN st.entries :
     st.entries[k].expires_at # None /\ Unwrap(st.entries[k].expires_at) <= t}

\* C28: a purge pass that runs at time t (the engine not shut down) removes
\* exactly the entries whose expires_at is at or before t and leaves the
\* others as they were; no pair with an instant <= t is left; the sweeper
\* goes on to sleep until the earliest remaining deadline, or to wait when
\* there is none; and an entry only ever disappears in a write of a pass whose
\* time has reached the entry's current expires_at.
C28_PurgeRemovesExactlyDue ==
  [][/\ (PurgeReturns /\ ~mutex.before.shutdown) =>
          (/\ DOMAIN state.entries = (DOMAIN mutex.before.entries) \ DueKeys(mutex.before, mutex.t)
           /\ \A k \in DOMAIN state.entries : state.entries[k] = mutex.before.entries[k]
           /\ \A p \in state.expirations : p[1] > mutex.t
           /\ IF state.expirations = {}
                THEN sweeper'.pc = "to_wait"
                ELSE /\ sweeper'.pc = "to_sleep"
                     /\ \E p \in state.expirations : p[1] = sweeper'.when
                     /\ \A p \in state.expirations : sweeper'.when <= p[1])
     /\ \A k \in (DOMAIN state.entries) \ (DOMAIN state'.entries) :
          /\ mutex.owner = Some(SweeperId)
          /\ k \in DueKeys(state, mutex.t)
    ]_vars

\* a pass has just removed the first key, which was due, and kept the
\* second, whose deadline is later; the sweeper sleeps until that one
C28_Witness ==
  /\ mutex.owner = None
  /\ mutex.op.name = "purge"
  /\ Keys[1] \in DOMAIN mutex.before.entries
  /\ Keys[1] \notin DOMAIN state.entries
  /\ Keys[2] \in DOMAIN state.entries
  /\ state.entries[Keys[2]].expires_at # None
  /\ sweeper.pc = "sleep"
  /\ sweeper.when > now


\* a set that will call notify_one: it is making its writes, or has
\* dropped the guard and not yet sent the notification
NotifyInFlight ==
  \/ mutex.notifying # {}
  \/ mutex.owner # None /\ mutex.op.name = "set" /\ Held.notify

C30_SweeperStops ==
  /\ state.shutdown ~> (sweeper.pc = "done")
  /\ [][state.shutdown => state'.entries = state.entries]_vars
  /\ [](sweeper.pc = "done" => state.shutdown)

\* the sweeper has ended after a shutdown that found an entry with a
\* deadline still ahead, which stays stored
C30_Witness ==
  /\ state.shutdown
  /\ sweeper.pc = "done"
  /\ run_pc = "returned"
  /\ Keys[1] \in DOMAIN state.entries
  /\ state.entries[Keys[1]].expires_at # None
  /\ state.expirations # {}


\* ------------------------------------------------------------------------
\* The mutex and the suspension points
\* ------------------------------------------------------------------------
\* C31: the mutex is never held at a suspension point. A handler that
\* holds it is inside the Db call of apply, not at the select that awaits
\* read_frame nor in write_frame; the sweeper holds it only inside
\* purge_expired_keys, not on its way to, or in, its sleep or its wait;
\* and a task that is gone holds nothing.
C31_NoLockAcrossAwait ==
  /\ \A c \in Conns :
       mutex.owner = Some(c) => (handler[c] = "running" /\ task[c].pc = "parsed")
  /\ mutex.owner = Some(SweeperId) => sweeper.pc = "purge"
  /\ mutex.owner \subseteq (Conns \cup {SweeperId})

\* the second handler is in the middle of the writes of a set while the
\* first awaits the write of its reply and the sweeper sleeps
C31_Witness ==
  /\ mutex.owner = Some(2)
  /\ mutex.op.name = "set"
  /\ mutex.pc = 1
  /\ mutex.pc < Len(Held.steps)
  /\ task[1].pc = "applied"
  /\ sweeper.pc = "sleep"


\* ------------------------------------------------------------------------
\* The shutdown flag and the handlers
\* ------------------------------------------------------------------------
\* C32: the shutdown flag is set only during the drain and only when no
\* handler is left; it stays set; and once it is set no handler takes the
\* mutex and entries gets no new or replaced entry.
C32_NoInsertAfterShutdown ==
  /\ [][(~state.shutdown /\ state'.shutdown) =>
          (run_pc = "draining" /\ \A c \in Conns : handler[c] # "running")]_vars
  /\ [](state.shutdown =>
          /\ \A c \in Conns : handler[c] # "running"
          /\ mutex.owner \subseteq {SweeperId})
  /\ [][state.shutdown =>
          /\ state'.shutdown
          /\ \A k \in DOMAIN state'.entries :
               k \in DOMAIN state.entries /\ state'.entries[k] = state.entries[k]]_vars

\* the flag is set after both handlers have written (a string with a
\* deadline, a list) and closed
C32_Witness ==
  /\ state.shutdown
  /\ handler[1] = "closed"
  /\ handler[2] = "closed"
  /\ Keys[1] \in DOMAIN state.entries
  /\ Keys[2] \in DOMAIN state.entries
  /\ state.entries[Keys[2]].data.type = "List"


\* ------------------------------------------------------------------------
\* The backoff of Listener::accept
\* ------------------------------------------------------------------------
\* the waits of one accept call, in seconds
Waits == {2 ^ i : i \in 0..6}

\* C33: an accept call starts with a backoff of 1; a failure with a
\* backoff of at most 64 is followed by a sleep of that many seconds and
\* the backoff doubles when the sleep is over, so the waits are 1, 2, 4,
\* 8, 16, 32, 64; the failure that finds the backoff above 64 (at 128,
\* after those seven waits) ends the call and the accept loop with the
\* error; a success hands the socket to a new handler at once.
C33_AcceptBackoff ==
  /\ [](listener_pc = "sleep" => backoff \in Waits)
  /\ [](listener_pc = "accept" => backoff \in Waits \cup {2 * ACCEPT_BACKOFF_LIMIT})
  /\ [](listener_pc = "failed" => backoff = 2 * ACCEPT_BACKOFF_LIMIT)
  /\ [][/\ (listener_pc = "acquire" /\ listener_pc' = "accept") => backoff' = 1
        /\ (listener_pc = "accept" /\ listener_pc' = "sleep") =>
             (backoff <= ACCEPT_BACKOFF_LIMIT /\ backoff' = backoff)
        /\ (listener_pc = "sleep" /\ listener_pc' = "accept") => backoff' = 2 * backoff
        /\ (listener_pc = "accept" /\ listener_pc' = "failed") =>
             (backoff > ACCEPT_BACKOFF_LIMIT /\ run_pc' = "draining")
        /\ (listener_pc = "accept" /\ listener_pc' = "acquire") =>
             \E c \in Conns : handler[c] = "none" /\ handler'[c] = "running"
        /\ (listener_pc = "accept" /\ backoff > ACCEPT_BACKOFF_LIMIT) =>
             listener_pc' # "sleep"]_vars

\* the eighth failure in a row has ended an accept call that came after a
\* connection was accepted
C33_Witness ==
  /\ listener_pc = "failed"
  /\ backoff = 128
  /\ handler[1] # "none"


\* ------------------------------------------------------------------------
\* parse_frame and the inbound buffer
\* ------------------------------------------------------------------------
IsPrefix(a, b) == Len(a) <= Len(b) /\ a = SubSeq(b, 1, Len(a))

\* the buffer holds the beginning of a message and not all of it
CutMessage(buffer) ==
  \E f \in GrammarFrames :
    IsPrefix(buffer, GrammarWire(f)) /\ buffer # GrammarWire(f)

\* C34: parse_frame on a buffer that holds an incomplete message returns
\* none and leaves the buffer as it is (as whenever it returns none); on
\* a buffer that starts with a complete message it returns that message
\* and removes exactly its bytes; whatever it returns as a frame, what
\* stays is the untouched rest of the buffer.
C34_ParseFrameBuffer ==
  [][conn.pc = "parse" =>
       /\ CutMessage(conn.buffer) => conn'.pc = "read"
       /\ conn'.pc = "read" => conn'.buffer = conn.buffer
       /\ \A f \in GrammarFrames :
            IsPrefix(GrammarWire(f), conn.buffer) =>
              /\ conn'.pc = "returned"
              /\ conn'.returned = Append(conn.returned, f)
              /\ conn.buffer = GrammarWire(f) \o conn'.buffer
       /\ conn'.pc = "returned" =>
            \E n \in 1..Len(conn.buffer) :
              conn'.buffer = SubSeq(conn.buffer, n + 1, Len(conn.buffer))
    ]_vars

\* an array was returned and the beginning of the next message stays
C34_Witness ==
  /\ conn.pc = "returned"
  /\ conn.returned = <<Array(<<Bulk(<<"a">>)>>)>>
  /\ conn.buffer = <<"$", "-">>
  /\ conn.stream = <<>>


\* C35: whenever check returns ok on the buffer, parse from position 0 on
\* the same bytes returns a message and stops where check stopped, so
\* parse_frame returns the frame.
C35_CheckedBufferParses ==
  conn.pc = "parse" =>
    LET c == check(conn.buffer, 0, conn.build)
        f == parse(conn.buffer, 0, conn.build)
    IN c.res = "ok" =>
         /\ f.res = "ok"
         /\ f.pos = c.pos
         /\ parse_frame(conn.buffer, conn.build).res = "frame"

\* the buffer starts with the length line of a bulk
DeclaresBulk(buffer) ==
  /\ Len(buffer) >= 2
  /\ buffer[1] = "$"
  /\ buffer[2] # "-"
  /\ get_decimal(buffer, 1).res = "ok"
  /\ get_decimal(buffer, 1).val <= USizeMax

\* C40: for a bulk whose declared length L fits the unsigned range, check
\* and parse each report Incomplete or a protocol error, or stop exactly
\* L + 2 bytes after the length line, inside the buffer; neither panics
\* and neither takes the bulk for a shorter one.
C40_BulkLengthNoOverflow ==
  (conn.pc = "parse" /\ DeclaresBulk(conn.buffer)) =>
    LET d == get_decimal(conn.buffer, 1)
        c == check(conn.buffer, 0, conn.build)
        f == parse(conn.buffer, 0, conn.build)
    IN /\ \/ c.res \in {"incomplete", "error"}
          \/ c.res = "ok" /\ c.pos = d.pos + d.val + 2 /\ c.pos <= Len(conn.buffer)
       /\ \/ f.res \in {"incomplete", "error"}
          \/ f.res = "ok" /\ f.pos = d.pos + d.val + 2 /\ f.pos <= Len(conn.buffer)

\* C36: get makes no expiry check of its own: called on a key whose entry
\* holds a String it writes nothing and returns the stored bytes, whether
\* the entry's expires_at lies ahead of the instant of the call or has
\* passed, and apply replies with them as a Bulk; an expired entry is
\* readable for as long as the sweeper has not removed it
C36_GetIgnoresExpiry ==
  \A c \in Conns :
    /\ (/\ mutex.owner = Some(c)
        /\ mutex.op.name = "get"
        /\ mutex.op.key \in DOMAIN mutex.before.entries
        /\ mutex.before.entries[mutex.op.key].data.type = "String")
         => /\ ~Held.panic
            /\ Held.steps = <<>>
            /\ state = mutex.before
            /\ Held.ret = Some(mutex.before.entries[mutex.op.key].data.bytes)
            /\ ApplyReply = Bulk(mutex.before.entries[mutex.op.key].data.bytes)
    /\ (task[c].pc = "applied" /\ Current(c).name = "get")
         => task[c].reply = Some(Bulk(SetCmd.value))

\* a get holds the lock at an instant at which the entry of its key is
\* already due and the sweeper has not purged it
C36_Witness ==
  /\ mutex.owner = Some(1)
  /\ mutex.op.name = "get"
  /\ mutex.op.key \in DOMAIN state.entries
  /\ state.entries[mutex.op.key].expires_at # None
  /\ Unwrap(state.entries[mutex.op.key].expires_at) <= mutex.t
  /\ sweeper.pc = "sleep"

\* C37: a PUSH on a key that exists and holds a String leaves entries and
\* expirations as they were, stores no wake-up for the sweeper, and is
\* answered Simple("OK") whenever the reply can be written (the lock not
\* being poisoned by an earlier panic)
C37_PushOnStringNoEffect ==
  [][(/\ ~poisoned
      /\ <<last, handler>>' # <<last, handler>>
      /\ last'.op = "push"
      /\ last'.key \in DOMAIN state.entries
      /\ state.entries[last'.key].data.type = "String")
       => /\ state' = state
          /\ notified' = notified
          /\ poisoned' = poisoned
          /\ last'.outcome \in {"ok", "ioerr"}
          /\ (last'.outcome = "ok" => last'.reply = Some(Simple(OK)))]_vars

\* a PUSH of two values was answered OK and its key still holds the String
\* a SET stored
C37_Witness ==
  /\ last.op = "push"
  /\ last.before = "string"
  /\ Len(last.arg.values) = 2
  /\ last.outcome = "ok"
  /\ last.reply = Some(Simple(OK))
  /\ state.entries[last.key].data = String(<<"x">>)

\* C38: an INCRBY writes nothing but the data of the entry of its key, and
\* that only when the entry holds a String that parses as a number: the
\* keys of entries, every expires_at, the expirations set, the shutdown
\* flag and the stored wake-up of the sweeper are as before, every other
\* entry is as before, and an entry of its key that is absent, a list or
\* not numeric is as before
C38_IncrbyWritesOnlyNumber ==
  [][IncrbyStep =>
       /\ DOMAIN state'.entries = DOMAIN state.entries
       /\ state'.expirations = state.expirations
       /\ state'.shutdown = state.shutdown
       /\ notified' = notified
       /\ \A k \in DOMAIN state.entries :
            /\ state'.entries[k].expires_at = state.entries[k].expires_at
            /\ state'.entries[k].data.type = state.entries[k].data.type
            /\ (k # last'.key \/ ~Numeric(state, k))
                 => state'.entries[k] = state.entries[k]]_vars

\* an INCRBY was taken on a key holding a list, which is still there, while
\* another key waits for its expiry
C38_Witness ==
  /\ last.op = "incrby"
  /\ last.before = "list"
  /\ last.outcome = "ok"
  /\ last.key \in DOMAIN state.entries
  /\ state.entries[last.key].data.type = "List"
  /\ state.expirations # {}

\* C39: an INCRBY of d on a key storing the decimal n, with n + d outside
\* the i64 range, leaves the stored value as it was and the engine usable:
\* no wrapped-around value is stored, and the call does not fail with the
\* lock held (the lock is not poisoned and the handler goes on)
C39_IncrbyOverflowSafe ==
  [][(/\ IncrbyStep /\ Numeric(state, last'.key)
      /\ bytes_to_i64(state.entries[last'.key].data.bytes).val + last'.arg.delta
            \notin I64Min..I64Max)
       => /\ state' = state
          /\ ~poisoned'
          /\ handler' = handler]_vars

====
